---- MODULE Spec2Model ----
(***************************************************************************)
(* RustyHashBackUp: the three-phase backup engine (discovery, preparation, *)
(* copy with verification), its catalog (Source_Files / Backup_Files) and  *)
(* the run status kept by AppState.                                        *)
(***************************************************************************)
EXTENDS Integers, FiniteSets, Sequences, TLC

\* ------------------------------------------------------------------ bounds
\* Spec: one run, with I/O failures and cancellation
MaxTime == 2
MaxRuns == 1
MaxEnv == 1
MaxFaults == 1
\* SpecRerun: successive runs in mode NONE, without failures or cancellation
RerunRuns == 2
RerunEnv == 2

\* the file and the destination that are changed from outside between runs
EnvFiles == {"a"}
EnvDests == {"d1"}

\* the configured source roots, the files the walker finds under each (in
\* walk order) and the configured destinations (in configuration order)
SourceRoots == {"r1", "r2"}
FilesOf == [r \in SourceRoots |-> IF r = "r1" THEN <<"a">> ELSE <<"b">>]
Files == UNION {{FilesOf[r][i] : i \in 1..Len(FilesOf[r])} : r \in SourceRoots}
backup_destinations == <<"d1", "d2">>
Dests == {backup_destinations[i] : i \in 1..Len(backup_destinations)}

\* a file's bytes: the hashed prefix and the length
Prefixes == 1..2
Sizes == 1..2
Content == [pre : Prefixes, size : Sizes]
Time == 0..MaxTime
NoFile == [absent |-> TRUE]
FileRec == [content : Content, mtime : Time]
Modes == {"NONE", "QUICK", "FULL"}

\* ------------------------------------------------------------ DryRunMode
is_dry_run(m) == m \in {"QUICK", "FULL"}
is_quick(m) == m = "QUICK"
should_hash(m) == m # "QUICK"
should_copy_files(m) == m = "NONE"
\* (a variant that lets the full dry run write the catalog)
should_update_database_in_full(m) == m \in {"NONE", "FULL"}
should_update_database(m) == m = "NONE"

\* ---------------------------------------------------------------- Hasher
\* hash_file: the digest of the hashed prefix; the digest space is disjoint
\* from the sentinel used by the quick dry run
QuickSentinel == 0
hash_file(file) == 10 + file.content.pre

\* --------------------------------------------------------------- Catalog
\* Source_Files rows: [id, key, hash, file_size, last_modified];
\* Backup_Files rows: [source_id, key, last_modified]
select_source(S, key) == {r \in S : r.key = key}

\* (a variant without the ON CONFLICT clause and without the unique index)
insert_source_row_no_conflict(S, nid, row) ==
    [rows |-> S \cup {[row EXCEPT !.id = nid]}, id |-> nid, nextId |-> nid + 1]

\* (a variant that replaces the conflicting row by a new one: INSERT OR REPLACE)
insert_source_row_replace(S, nid, row) ==
    [rows |-> {r \in S : r.key # row.key} \cup {[row EXCEPT !.id = nid]},
     id |-> nid, nextId |-> nid + 1]

insert_source_row(S, nid, row) ==
    IF \E r \in S : r.key = row.key
    THEN LET old == CHOOSE r \in S : r.key = row.key
         IN [rows |-> (S \ {old}) \cup
                       {[old EXCEPT !.hash = row.hash, !.file_size = row.file_size,
                                    !.last_modified = row.last_modified]},
             id |-> old.id, nextId |-> nid]
    ELSE [rows |-> S \cup {[row EXCEPT !.id = nid]}, id |-> nid, nextId |-> nid + 1]

\* (a variant whose UPDATE has no WHERE clause)
update_source_last_modified_all_rows(S, id, lm) ==
    {[r EXCEPT !.last_modified = lm] : r \in S}

update_source_last_modified(S, id, lm) ==
    {IF r.id = id THEN [r EXCEPT !.last_modified = lm] ELSE r : r \in S}

\* (a variant whose UPDATE leaves File_Size as it is)
update_source_row_keeps_size(S, id, hash, size, lm) ==
    {IF r.id = id THEN [r EXCEPT !.hash = hash, !.last_modified = lm] ELSE r : r \in S}

update_source_row(S, id, hash, size, lm) ==
    {IF r.id = id THEN [r EXCEPT !.hash = hash, !.file_size = size, !.last_modified = lm]
     ELSE r : r \in S}

\* (a variant that stamps the replica row one second after the file)
insert_backup_row_stamped_later(R, row) ==
    IF \E r \in R : r.key = row.key
    THEN LET old == CHOOSE r \in R : r.key = row.key
         IN (R \ {old}) \cup {[old EXCEPT !.source_id = row.source_id,
                                          !.last_modified = row.last_modified + 1]}
    ELSE R \cup {[row EXCEPT !.last_modified = @ + 1]}
insert_backup_row(R, row) ==
    IF \E r \in R : r.key = row.key
    THEN LET old == CHOOSE r \in R : r.key = row.key
         IN (R \ {old}) \cup {[old EXCEPT !.source_id = row.source_id,
                                          !.last_modified = row.last_modified]}
    ELSE R \cup {row}

\* Backup_Files LEFT JOIN Source_Files: the replica row with its source's
\* hash; hashNull marks a replica whose source row is missing (SQL NULL)
select_backed_up_file(R, S, key) ==
    {[last_modified |-> b.last_modified,
      hashNull |-> ~(\E s \in S : s.id = b.source_id),
      hash |-> IF \E s \in S : s.id = b.source_id
               THEN (CHOOSE s \in S : s.id = b.source_id).hash
               ELSE QuickSentinel]
     : b \in {x \in R : x.key = key}}

\* ----------------------------------------------------------------- state
VARIABLES
    cfg,          \* Config: skip_source_hash_check_if_newer, force_overwrite_backup,
                  \*         overwrite_backup_if_existing_is_newer
    mode,         \* DryRunMode of the current run
    status,       \* AppState.status
    stop,         \* AppState.stop_signal
    pc,           \* position of the run's task: idle, discover, prepare, copy, finish
    result,       \* what run_backup returned: "ok", "err" ("none" while running)
    srcFs,        \* source files: FileRec or NoFile
    dstFs,        \* destination files, by <<file, destination>>
    sources,      \* table Source_Files
    replicas,     \* table Backup_Files
    nextId,       \* autoincrement of Source_Files
    now,          \* wall clock, seconds
    candidates,   \* phase 1 output: per source root, the files found (walk order)
    cursor,       \* phase 2: per source root, index of its next candidate
    prepped,      \* phase 2 output: PreppedBackup per file (a set of 0 or 1)
    prepErrors,   \* phase 2 error accumulator (length)
    worker,       \* phase 3: per PreppedBackup "none", "todo", "active", "done"
    pos,          \* phase 3: index of the next backup path of the PreppedBackup
    filesCopied,  \* phase 3: files_copied local of each worker
    backup_files_processed,  \* phase 3: the workers' shared file counter
    backup_bytes_processed,  \* phase 3: the workers' shared byte counter
    current,      \* phase 3: current_files and current_bytes locals of each worker
    errors,       \* phase 3 error accumulator (length)
    progress,     \* AppState.progress
    faults,       \* I/O and catalog failures injected so far
    runs,         \* runs started so far
    envs,         \* outside changes to the file systems so far
    lim,          \* what the explored behaviours are limited to
    hist,         \* history of the current run and of what preceded it
    handlers,     \* start_backup / stop_backup requests past their status check
    extra,        \* run tasks executing besides the one pc follows
    call,         \* the last catalog or path call and what it returned
    progress_subscribers,  \* AppState.progress_subscribers: the senders, in order
    receivers,    \* per client of /events, the channel its stream receives from
    published,    \* progress events published so far
    subscribed,   \* channels created so far
    DB_POOL,      \* the global pool (NoPool: None)
    building,     \* set_db_pool: the pool each thread has built and not stored yet
                  \* (of), and the number of pools built so far (count)
    conns,        \* per catalog operation in flight, its pooled connection
    current_run,  \* AppState.current_run (NoRun: None)
    history,      \* AppState.history, front first
    mutexes,      \* per Mutex of AppState, the thread that holds its guard
    frames        \* per thread, the AppState operation it executes and the
                  \* instructions still to run

vars == <<cfg, mode, status, stop, pc, result, srcFs, dstFs, sources, replicas,
          nextId, now, candidates, cursor, prepped, prepErrors, worker, pos, filesCopied,
          backup_files_processed, backup_bytes_processed, current,
          errors, progress, faults, runs, envs, lim, hist, handlers, extra, call,
          progress_subscribers, receivers, published, subscribed, DB_POOL, building, conns,
          current_run, history, mutexes, frames>>
countVars == <<backup_files_processed, backup_bytes_processed, current>>
eventVars == <<progress_subscribers, receivers, published, subscribed>>
poolVars == <<DB_POOL, building, conns>>
appVars == <<current_run, history, mutexes, frames>>
auxVars == <<handlers, extra, call, eventVars, poolVars, appVars>>

SrcPath(f) == <<"src", f, "-">>
DstPath(f, d) == <<"dst", f, d>>

\* ------------------------------------------------------ Change Classifier
\* (a variant that also takes a file of the row's own second for newer)
get_is_source_file_updated_or_equal(rec, f, lm, m, flt) ==
    LET size == srcFs[f].content.size
        keep == [err |-> FALSE, faulted |-> FALSE, updated |-> FALSE, hash |-> rec.hash,
                 rows |-> sources, hashed |-> {}]
        fail == [keep EXCEPT !.err = TRUE, !.faulted = TRUE]
    IN IF rec.last_modified <= lm
       THEN IF cfg.skip_source_hash_check_if_newer
            THEN [keep EXCEPT !.updated = TRUE]
            ELSE IF should_hash(m) /\ flt = "hash"
            THEN [fail EXCEPT !.hashed = {SrcPath(f)}]
            ELSE LET hash == IF should_hash(m) THEN hash_file(srcFs[f]) ELSE rec.hash
                     hd == IF should_hash(m) THEN {SrcPath(f)} ELSE {}
                 IN IF hash = rec.hash /\ size = rec.file_size
                    THEN IF should_update_database(m) /\ flt = "update"
                         THEN [fail EXCEPT !.hashed = hd]
                         ELSE [keep EXCEPT !.hash = hash, !.hashed = hd,
                                 !.rows = IF should_update_database(m)
                                          THEN update_source_last_modified(sources, rec.id, lm)
                                          ELSE sources]
                    ELSE IF should_update_database(m) /\ flt = "update"
                         THEN [fail EXCEPT !.hashed = hd]
                         ELSE [keep EXCEPT !.updated = TRUE, !.hash = hash, !.hashed = hd,
                                 !.rows = IF should_update_database(m)
                                          THEN update_source_row(sources, rec.id, hash, size, lm)
                                          ELSE sources]
       ELSE keep

\* get_is_source_file_updated: (updated, hash) for a known source, with the
\* catalog rows after its updates; flt names the call that fails, if any (a
\* failing metadata read already fails prepare_single_candidate before it)
get_is_source_file_updated(rec, f, lm, m, flt) ==
    LET size == srcFs[f].content.size
        keep == [err |-> FALSE, faulted |-> FALSE, updated |-> FALSE, hash |-> rec.hash,
                 rows |-> sources, hashed |-> {}]
        fail == [keep EXCEPT !.err = TRUE, !.faulted = TRUE]
    IN IF rec.last_modified < lm
       THEN IF cfg.skip_source_hash_check_if_newer
            THEN [keep EXCEPT !.updated = TRUE]
            ELSE IF should_hash(m) /\ flt = "hash"
            THEN [fail EXCEPT !.hashed = {SrcPath(f)}]
            ELSE LET hash == IF should_hash(m) THEN hash_file(srcFs[f]) ELSE rec.hash
                     hd == IF should_hash(m) THEN {SrcPath(f)} ELSE {}
                 IN IF hash = rec.hash /\ size = rec.file_size
                    THEN IF should_update_database(m) /\ flt = "update"
                         THEN [fail EXCEPT !.hashed = hd]
                         ELSE [keep EXCEPT !.hash = hash, !.hashed = hd,
                                 !.rows = IF should_update_database(m)
                                          THEN update_source_last_modified(sources, rec.id, lm)
                                          ELSE sources]
                    ELSE IF should_update_database(m) /\ flt = "update"
                         THEN [fail EXCEPT !.hashed = hd]
                         ELSE [keep EXCEPT !.updated = TRUE, !.hash = hash, !.hashed = hd,
                                 !.rows = IF should_update_database(m)
                                          THEN update_source_row(sources, rec.id, hash, size, lm)
                                          ELSE sources]
       ELSE keep

\* (a variant that yields the destinations last to first)
possible_backup_paths_reversed(f) ==
    [i \in 1..Len(backup_destinations) |->
        backup_destinations[Len(backup_destinations) + 1 - i]]

\* possible_backup_paths of get_possible_backups: one backup path per
\* configured destination, in configuration order; in the runs a path is
\* identified by its destination (the paths themselves: get_possible_backups)
possible_backup_paths(f) == backup_destinations

\* prepare_single_candidate: the PreppedBackup of candidate f, or an error
prepare_single_candidate(f, m, flt) ==
    LET file == srcFs[f]
        base == [err |-> FALSE, faulted |-> FALSE, prepped |-> {}, rows |-> sources,
                 nextId |-> nextId, hashed |-> {}]
        fail == [base EXCEPT !.err = TRUE, !.faulted = TRUE]
        build(updated, hash, id) ==
            [db_id |-> id, source_file |-> f, backup_paths |-> possible_backup_paths(f),
             hash |-> hash, file_size |-> file.content.size,
             source_last_modified_date |-> file.mtime, updated |-> updated]
    IN IF file = NoFile \/ flt = "metadata" THEN fail
       ELSE IF should_update_database(m) /\ flt = "query" THEN fail
       ELSE LET db == IF should_update_database(m) THEN select_source(sources, f) ELSE {}
            IN IF db # {}
               THEN LET rec == CHOOSE r \in db : TRUE
                        u == get_is_source_file_updated(rec, f, file.mtime, m, flt)
                    IN IF u.err
                       THEN [fail EXCEPT !.hashed = u.hashed]
                       ELSE IF flt = "escape"
                       THEN [fail EXCEPT !.rows = u.rows, !.hashed = u.hashed]
                       ELSE [base EXCEPT !.faulted = u.faulted, !.rows = u.rows,
                               !.hashed = u.hashed,
                               !.prepped = {build(u.updated, u.hash, rec.id)}]
               ELSE IF should_hash(m) /\ flt = "hash"
               THEN [fail EXCEPT !.hashed = {SrcPath(f)}]
               ELSE LET hash == IF should_hash(m) THEN hash_file(file) ELSE QuickSentinel
                        hd == IF should_hash(m) THEN {SrcPath(f)} ELSE {}
                    IN IF should_update_database(m)
                       THEN IF flt = "insert" THEN [fail EXCEPT !.hashed = hd]
                            ELSE LET ins == insert_source_row(sources, nextId,
                                     [id |-> 0, key |-> f, hash |-> hash,
                                      file_size |-> file.content.size,
                                      last_modified |-> file.mtime])
                                 IN IF flt = "escape"
                                    THEN [fail EXCEPT !.rows = ins.rows,
                                            !.nextId = ins.nextId, !.hashed = hd]
                                    ELSE [base EXCEPT !.rows = ins.rows,
                                            !.nextId = ins.nextId, !.hashed = hd,
                                            !.prepped = {build(TRUE, hash, ins.id)}]
                       ELSE IF flt = "escape" THEN [fail EXCEPT !.hashed = hd]
                            ELSE [base EXCEPT !.hashed = hd,
                                    !.prepped = {build(TRUE, hash, 0)}]

\* ------------------------------------------------------------ Copy Engine
\* (a variant that writes the placeholder id of the dry runs)
create_backup_row_placeholder(p, d) ==
    [source_id |-> 0, key |-> <<p.source_file, d>>,
     last_modified |-> dstFs[<<p.source_file, d>>].mtime]

\* (a variant that records the source file's modification time)
create_backup_row_source_time(p, d) ==
    [source_id |-> p.db_id, key |-> <<p.source_file, d>>,
     last_modified |-> p.source_last_modified_date]

\* create_backup_row: the Backup_Files row of a destination file as it is
create_backup_row(p, d) ==
    [source_id |-> p.db_id, key |-> <<p.source_file, d>>,
     last_modified |-> dstFs[<<p.source_file, d>>].mtime]

\* existing_file_needs_updated / is_backup_required: the should-copy decision
\* for PreppedBackup p at destination d, with the replica rows after an adoption
is_backup_required(p, d, m, flt) ==
    LET k == <<p.source_file, d>>
        file == dstFs[k]
        base == [err |-> FALSE, faulted |-> FALSE, required |-> FALSE, rows |-> replicas,
                 hashed |-> {}]
        fail == [base EXCEPT !.err = TRUE, !.faulted = TRUE]
        yes == [base EXCEPT !.required = TRUE]
        hd == {DstPath(p.source_file, d)}
    IN IF file = NoFile THEN yes
       ELSE IF flt = "metadata" THEN fail
       ELSE IF is_quick(m)
       THEN IF p.file_size # file.content.size THEN yes ELSE base
       ELSE IF should_update_database(m) /\ flt = "query" THEN fail
       ELSE LET db == IF should_update_database(m)
                      THEN select_backed_up_file(replicas, sources, k) ELSE {}
            IN IF db # {}
               THEN LET backup_file_row == CHOOSE b \in db : TRUE
                    IN IF backup_file_row.hashNull THEN [fail EXCEPT !.faulted = FALSE]
                       ELSE IF backup_file_row.last_modified <= file.mtime
                       THEN IF p.file_size = file.content.size
                            THEN IF flt = "hash" THEN [fail EXCEPT !.hashed = hd]
                                 ELSE IF backup_file_row.hash = hash_file(file)
                                 THEN [base EXCEPT !.hashed = hd]
                                 ELSE [yes EXCEPT !.hashed = hd]
                            ELSE yes
                       ELSE IF cfg.overwrite_backup_if_existing_is_newer THEN yes
                       ELSE base
               ELSE IF p.file_size = file.content.size
                    THEN IF flt = "hash" THEN [fail EXCEPT !.hashed = hd]
                         ELSE IF p.hash = hash_file(file)
                         THEN IF should_update_database(m)
                              THEN IF flt = "insert" THEN [fail EXCEPT !.hashed = hd]
                                   ELSE [base EXCEPT !.hashed = hd,
                                           !.rows = insert_backup_row(replicas,
                                                        create_backup_row(p, d))]
                              ELSE [base EXCEPT !.hashed = hd]
                         ELSE [yes EXCEPT !.hashed = hd]
                    ELSE yes

\* (a variant of backup_file that leaves the mismatching copy in place)
backup_file_keeps_copy(p, d, m, flt) ==
    LET k == <<p.source_file, d>>
        base == [err |-> FALSE, faulted |-> FALSE, fs |-> dstFs, rows |-> replicas,
                 hashed |-> {}, copied |-> FALSE, verifyFailed |-> FALSE]
        fail == [base EXCEPT !.err = TRUE, !.faulted = TRUE]
        hd == {DstPath(p.source_file, d)}
    IN IF ~should_copy_files(m) THEN base
       ELSE IF srcFs[p.source_file] = NoFile \/ flt = "copy" THEN fail
       ELSE LET written == [content |-> srcFs[p.source_file].content, mtime |-> now]
                fs1 == [dstFs EXCEPT ![k] = written]
                done == [base EXCEPT !.fs = fs1, !.copied = TRUE]
            IN IF flt = "rehash" THEN [done EXCEPT !.err = TRUE, !.faulted = TRUE, !.hashed = hd]
               ELSE IF hash_file(written) # p.hash
               THEN [done EXCEPT !.err = TRUE, !.hashed = hd, !.verifyFailed = TRUE]
               ELSE IF flt = "insert" THEN [done EXCEPT !.err = TRUE, !.faulted = TRUE, !.hashed = hd]
               ELSE [done EXCEPT !.hashed = hd,
                       !.rows = insert_backup_row(replicas,
                                    [source_id |-> p.db_id, key |-> k, last_modified |-> now])]

\* (a variant of backup_file that commits the replica row without reading
\* the copy back)
backup_file_unverified(p, d, m, flt) ==
    LET k == <<p.source_file, d>>
        base == [err |-> FALSE, faulted |-> FALSE, fs |-> dstFs, rows |-> replicas,
                 hashed |-> {}, copied |-> FALSE, verifyFailed |-> FALSE]
        fail == [base EXCEPT !.err = TRUE, !.faulted = TRUE]
    IN IF ~should_copy_files(m) THEN base
       ELSE IF srcFs[p.source_file] = NoFile \/ flt = "copy" THEN fail
       ELSE LET written == [content |-> srcFs[p.source_file].content, mtime |-> now]
                done == [base EXCEPT !.fs = [dstFs EXCEPT ![k] = written], !.copied = TRUE]
            IN IF flt \in {"rehash", "insert"} THEN [done EXCEPT !.err = TRUE, !.faulted = TRUE]
               ELSE [done EXCEPT
                       !.rows = insert_backup_row(replicas,
                                    [source_id |-> p.db_id, key |-> k, last_modified |-> now])]

\* backup_file: copy, verify, and on success upsert the replica row; on a
\* hash mismatch the copied file is removed
backup_file(p, d, m, flt) ==
    LET k == <<p.source_file, d>>
        base == [err |-> FALSE, faulted |-> FALSE, fs |-> dstFs, rows |-> replicas,
                 hashed |-> {}, copied |-> FALSE, verifyFailed |-> FALSE]
        fail == [base EXCEPT !.err = TRUE, !.faulted = TRUE]
        hd == {DstPath(p.source_file, d)}
    IN IF ~should_copy_files(m) THEN base
       ELSE IF srcFs[p.source_file] = NoFile \/ flt = "copy" THEN fail
       ELSE LET written == [content |-> srcFs[p.source_file].content, mtime |-> now]
                fs1 == [dstFs EXCEPT ![k] = written]
                done == [base EXCEPT !.fs = fs1, !.copied = TRUE]
            IN IF flt = "rehash" THEN [done EXCEPT !.err = TRUE, !.faulted = TRUE, !.hashed = hd]
               ELSE IF hash_file(written) # p.hash
               THEN [done EXCEPT !.err = TRUE, !.fs = [dstFs EXCEPT ![k] = NoFile],
                       !.hashed = hd, !.verifyFailed = TRUE]
               ELSE IF flt = "insert" THEN [done EXCEPT !.err = TRUE, !.faulted = TRUE, !.hashed = hd]
               ELSE [done EXCEPT !.hashed = hd,
                       !.rows = insert_backup_row(replicas,
                                    [source_id |-> p.db_id, key |-> k, last_modified |-> now])]

\* one iteration of the loop over backup_paths in backup_files: the
\* should-copy decision and, when the mode allows, the copy
process_destination(p, d, m, flt) ==
    LET base == [faulted |-> FALSE, fs |-> dstFs, rows |-> replicas, hashed |-> {},
                 copied |-> FALSE, verifyFailed |-> FALSE, counted |-> FALSE,
                 pushed |-> FALSE, failed |-> FALSE, decision |-> "none"]
        copy(dec, fl) ==
            IF should_copy_files(m)
            THEN LET b == backup_file(p, d, m, fl)
                 IN [base EXCEPT !.faulted = b.faulted, !.fs = b.fs, !.rows = b.rows,
                       !.hashed = b.hashed, !.copied = b.copied,
                       !.verifyFailed = b.verifyFailed, !.counted = ~b.err,
                       !.pushed = b.err, !.failed = b.err, !.decision = dec]
            ELSE [base EXCEPT !.counted = TRUE, !.decision = dec]
    IN IF cfg.force_overwrite_backup THEN copy("forced", flt)
       ELSE LET r == is_backup_required(p, d, m, flt)
            IN IF r.err
               THEN [base EXCEPT !.faulted = r.faulted, !.hashed = r.hashed,
                       !.failed = TRUE, !.decision = "error"]
               ELSE IF r.required
               THEN LET c == copy("true", flt)
                    IN [c EXCEPT !.hashed = r.hashed \cup c.hashed]
               ELSE [base EXCEPT !.rows = r.rows, !.hashed = r.hashed, !.decision = "false"]

\* ------------------------------------------------------------------ Init
Keys == Files \X Dests
PrepFaults == {"none", "metadata", "query", "hash", "insert", "update", "escape"}
CopyFaults == {"none", "metadata", "query", "hash", "insert", "copy", "rehash"}
DefaultProgress == [phase |-> 0, files_processed |-> 0, total_files |-> 0,
                    bytes_processed |-> 0]
NoCount == [files |-> 0, bytes |-> 0]
Change(kind, f, d, newer, resized, rewritten) ==
    [kind |-> kind, file |-> f, dest |-> d, newer |-> newer, resized |-> resized,
     rewritten |-> rewritten]
NoChange == Change("none", "-", "-", FALSE, FALSE, FALSE)
NewHist(prevClean, change, lastClean) ==
    [copied |-> {}, hashed |-> {}, decisions |-> [k \in Keys |-> "none"],
     failed |-> {}, reported |-> {}, verifyFailed |-> {}, dst0 |-> dstFs,
     sources0 |-> sources,
     replicas0 |-> replicas, prevClean |-> prevClean, change |-> change,
     env |-> NoChange, lastClean |-> lastClean, faulted |-> FALSE]

\* The files of `existing` exist; those of `backedUp` were backed up by an
\* earlier run (a source row, every replica and its row, all stamped with
\* second 1), the others have been created since.
NoCall == [op |-> "none"]
\* DB_POOL before the first set_db_pool, and a connection slot not in use
NoPool == 0
NoConn == [pool |-> NoPool, state |-> "idle"]
Clients == {"c1", "c2"}
Threads == {"t1", "t2"}
\* the Mutex fields of AppState that its operations lock, and an unlocked one
Mutexes == {"status", "progress", "current_run", "history", "progress_subscribers"}
NoThread == "-"
\* AppState.current_run before the first start_backup_run
NoRun == [id |-> 0]
\* a thread outside every AppState operation
NoFrame == [op |-> "none", code |-> <<>>, error |-> FALSE, pushes |-> 0,
            event |-> [status |-> "IDLE", files_processed |-> 0]]
\* the configuration a file without the three switches yields
DefaultConfig ==
    [skip_source_hash_check_if_newer |-> TRUE, force_overwrite_backup |-> FALSE,
     overwrite_backup_if_existing_is_newer |-> FALSE]
File0 == [content |-> [pre |-> 1, size |-> 1], mtime |-> 1]
FileOrder == <<"a", "b">>
FileIndex(f) == CHOOSE i \in 1..Len(FileOrder) : FileOrder[i] = f
IdOf(f, backedUp) == Cardinality({g \in backedUp : FileIndex(g) <= FileIndex(f)})
\* limits.started: start_backup_run has been called once and has returned
Started(limits) == "started" \in DOMAIN limits /\ limits.started
InitWith(existing, backedUp, limits) ==
    /\ lim = limits
    /\ cfg \in [skip_source_hash_check_if_newer : BOOLEAN, force_overwrite_backup : BOOLEAN,
                overwrite_backup_if_existing_is_newer : BOOLEAN]
    /\ mode = "NONE"
    /\ status = IF Started(limits) THEN "RUNNING" ELSE "IDLE"
    /\ stop = FALSE
    /\ pc = "idle"
    /\ result = "none"
    /\ srcFs = [f \in Files |-> IF f \in existing THEN File0 ELSE NoFile]
    /\ dstFs = [k \in Keys |-> IF k[1] \in backedUp THEN File0 ELSE NoFile]
    /\ sources = {[id |-> IdOf(f, backedUp), key |-> f, hash |-> hash_file(File0),
                   file_size |-> File0.content.size, last_modified |-> File0.mtime]
                  : f \in backedUp}
    /\ replicas = {[source_id |-> IdOf(k[1], backedUp), key |-> k,
                    last_modified |-> File0.mtime] : k \in backedUp \X Dests}
    /\ nextId = Cardinality(backedUp) + 1
    /\ now = 1
    /\ candidates = [r \in SourceRoots |-> <<>>]
    /\ cursor = [r \in SourceRoots |-> 1]
    /\ prepped = [f \in Files |-> {}]
    /\ prepErrors = 0
    /\ worker = [f \in Files |-> "none"]
    /\ pos = [f \in Files |-> 1]
    /\ filesCopied = [f \in Files |-> 0]
    /\ backup_files_processed = 0
    /\ backup_bytes_processed = 0
    /\ current = [f \in Files |-> NoCount]
    /\ errors = 0
    /\ progress = DefaultProgress
    /\ faults = 0
    /\ runs = IF Started(limits) THEN 1 ELSE 0
    /\ envs = 0
    /\ handlers = [start |-> 0, stop |-> 0]
    /\ extra = 0
    /\ call = NoCall
    /\ progress_subscribers = <<>>
    /\ receivers = [c \in Clients |-> 0]
    /\ published = IF Started(limits) THEN 2 ELSE 0
    /\ subscribed = 0
    /\ DB_POOL = IF "pool" \in DOMAIN limits THEN limits.pool ELSE 1
    /\ building = [of |-> [t \in Threads |-> NoPool], count |-> DB_POOL]
    /\ conns = [t \in Threads |-> NoConn]
    /\ current_run = IF Started(limits) THEN [id |-> 1] ELSE NoRun
    /\ history = <<>>
    /\ mutexes = [m \in Mutexes |-> NoThread]
    /\ frames = [t \in Threads |-> NoFrame]
    /\ hist = [copied |-> {}, hashed |-> {}, decisions |-> [k \in Keys |-> "none"],
               failed |-> {}, reported |-> {}, verifyFailed |-> {}, dst0 |-> dstFs,
               sources0 |-> sources, replicas0 |-> replicas,
               prevClean |-> FALSE, change |-> NoChange, env |-> NoChange,
               lastClean |-> existing \subseteq backedUp, faulted |-> FALSE]

\* one source file, new or already backed up
Init ==
    \E backedUp \in SUBSET {"a"} :
        InitWith({"a"}, backedUp, [runs |-> MaxRuns, env |-> MaxEnv, faults |-> MaxFaults,
                                   modes |-> Modes])

\* --------------------------------------------------- outside the program
fsVars == <<srcFs, dstFs, now>>
catVars == <<sources, replicas, nextId>>
runVars == <<candidates, cursor, prepped, prepErrors, worker, pos, filesCopied, countVars, errors, progress>>
ctlVars == <<cfg, mode, status, stop, pc, result, runs, lim>>

Noted(e) == IF hist.env = NoChange THEN e ELSE Change("many", "-", "-", FALSE, FALSE, FALSE)

\* a source file is overwritten, in a later second or within the second of
\* its modification time
WriteSource(f, c, newer) ==
    /\ pc = "idle" /\ runs < lim.runs /\ envs < lim.env
    /\ srcFs[f] # NoFile /\ srcFs[f].content # c
    /\ newer => now < MaxTime
    /\ now' = IF newer THEN now + 1 ELSE now
    /\ srcFs' = [srcFs EXCEPT ![f] = [content |-> c,
                                      mtime |-> IF newer THEN now + 1 ELSE srcFs[f].mtime]]
    /\ envs' = envs + 1
    /\ hist' = [hist EXCEPT !.env = Noted(Change("source", f, "-",
                    newer, c.size # srcFs[f].content.size,
                    c.pre # srcFs[f].content.pre))]
    /\ UNCHANGED <<auxVars, ctlVars, dstFs, catVars, runVars, faults>>

\* a destination file is written from outside, now or with an old time stamp
WriteReplica(f, d, c, t) ==
    /\ pc = "idle" /\ runs < lim.runs /\ envs < lim.env
    /\ dstFs[<<f, d>>] # [content |-> c, mtime |-> t]
    /\ dstFs' = [dstFs EXCEPT ![<<f, d>>] = [content |-> c, mtime |-> t]]
    /\ envs' = envs + 1
    /\ hist' = [hist EXCEPT !.env =
                    LET old == dstFs[<<f, d>>]
                    IN IF old = NoFile
                       THEN Noted(Change("replica", f, d, FALSE, FALSE, FALSE))
                       ELSE Noted(Change("replica", f, d, t > old.mtime,
                                         c.size # old.content.size,
                                         c.pre # old.content.pre))]
    /\ UNCHANGED <<auxVars, ctlVars, srcFs, now, catVars, runVars, faults>>

\* a destination file is deleted from outside
DeleteReplica(f, d) ==
    /\ pc = "idle" /\ runs < lim.runs /\ envs < lim.env
    /\ dstFs[<<f, d>>] # NoFile
    /\ dstFs' = [dstFs EXCEPT ![<<f, d>>] = NoFile]
    /\ envs' = envs + 1
    /\ hist' = [hist EXCEPT !.env = Noted(Change("delete", f, d, FALSE, FALSE, FALSE))]
    /\ UNCHANGED <<auxVars, ctlVars, srcFs, now, catVars, runVars, faults>>

\* -------------------------------------------------------- Run Controller
\* start_backup: rejected while a run is RUNNING; start_backup_run resets the
\* stop signal and the progress and the run's task is spawned
StartBackup(m) ==
    /\ pc = "idle" /\ runs < lim.runs /\ m \in lim.modes
    /\ status # "RUNNING"
    /\ mode' = m
    /\ stop' = FALSE
    /\ status' = "RUNNING"
    /\ progress' = DefaultProgress
    /\ pc' = "discover"
    /\ result' = "none"
    /\ runs' = runs + 1
    /\ candidates' = [r \in SourceRoots |-> <<>>]
    /\ cursor' = [r \in SourceRoots |-> 1]
    /\ prepped' = [f \in Files |-> {}]
    /\ prepErrors' = 0
    /\ worker' = [f \in Files |-> "none"]
    /\ pos' = [f \in Files |-> 1]
    /\ filesCopied' = [f \in Files |-> 0]
    /\ backup_files_processed' = 0
    /\ backup_bytes_processed' = 0
    /\ current' = [f \in Files |-> NoCount]
    /\ errors' = 0
    /\ hist' = NewHist(hist.lastClean, hist.env, FALSE)
    /\ UNCHANGED <<auxVars, lim, cfg, fsVars, catVars, faults, envs>>

\* stop_backup: accepted while RUNNING; request_stop sets the flag and STOPPING
RequestStop ==
    /\ pc \in {"discover", "prepare", "copy"}
    /\ status = "RUNNING"
    /\ stop' = TRUE
    /\ status' = "STOPPING"
    /\ UNCHANGED <<auxVars, lim, cfg, mode, pc, result, runs, fsVars, catVars, runVars, faults, envs,
                   hist>>

\* get_files_in_path: the files under source root r, in walk order
get_files_in_path(r) == SelectSeq(FilesOf[r], LAMBDA f : srcFs[f] # NoFile)

\* (a variant of run_backup without the check for an empty candidate map)
Discover_without_empty_check(walkFails) ==
    /\ pc = "discover"
    /\ walkFails => faults < lim.faults
    /\ faults' = IF walkFails THEN faults + 1 ELSE faults
    /\ hist' = [hist EXCEPT !.faulted = @ \/ walkFails]
    /\ IF walkFails
       THEN /\ pc' = "finish" /\ result' = "err"
            /\ progress' = [DefaultProgress EXCEPT !.phase = 1]
            /\ UNCHANGED candidates
       ELSE /\ candidates' = [r \in SourceRoots |-> get_files_in_path(r)]
            /\ pc' = "prepare" /\ result' = "none"
            /\ progress' = [phase |-> 2, files_processed |-> 0, bytes_processed |-> 0,
                            total_files |-> Cardinality({f \in Files : srcFs[f] # NoFile})]
    /\ UNCHANGED <<auxVars, lim, cfg, mode, status, stop, runs, fsVars, catVars, cursor, prepped,
                   prepErrors, worker, pos, filesCopied, countVars, errors, envs>>

\* run_backup, phase 1: get_source_files walks every source root; a walk
\* error is returned to the caller, no candidate at all ends the run
Discover(walkFails) ==
    /\ pc = "discover"
    /\ walkFails => faults < lim.faults
    /\ faults' = IF walkFails THEN faults + 1 ELSE faults
    /\ hist' = [hist EXCEPT !.faulted = @ \/ walkFails]
    /\ IF walkFails
       THEN /\ pc' = "finish" /\ result' = "err"
            /\ progress' = [DefaultProgress EXCEPT !.phase = 1]
            /\ UNCHANGED candidates
       ELSE LET found == [r \in SourceRoots |-> get_files_in_path(r)]
                total == Cardinality({f \in Files : srcFs[f] # NoFile})
            IN /\ candidates' = found
               /\ IF \A r \in SourceRoots : found[r] = <<>>
                  THEN /\ pc' = "finish" /\ result' = "ok"
                       /\ progress' = [DefaultProgress EXCEPT !.phase = 1]
                  ELSE /\ pc' = "prepare" /\ result' = "none"
                       /\ progress' = [phase |-> 2, files_processed |-> 0,
                                       bytes_processed |-> 0, total_files |-> total]
    /\ UNCHANGED <<auxVars, lim, cfg, mode, status, stop, runs, fsVars, catVars, cursor, prepped,
                   prepErrors, worker, pos, filesCopied, countVars, errors, envs>>

\* (a variant in which a candidate's error ends the phase for every worker)
Prepare_aborts_on_error(r, flt) ==
    /\ pc = "prepare"
    /\ cursor[r] <= Len(candidates[r])
    /\ IF stop
       THEN /\ flt = "none"
            /\ cursor' = [cursor EXCEPT ![r] = Len(candidates[r]) + 1]
            /\ UNCHANGED <<catVars, prepped, prepErrors, progress, faults, hist>>
       ELSE LET f == candidates[r][cursor[r]]
                p == prepare_single_candidate(f, mode, flt)
            IN /\ flt = "none" \/ (p.faulted /\ faults < lim.faults)
               /\ faults' = IF flt = "none" THEN faults ELSE faults + 1
               /\ cursor' = IF p.err
                             THEN [q \in SourceRoots |-> Len(candidates[q]) + 1]
                             ELSE [cursor EXCEPT ![r] = @ + 1]
               /\ sources' = p.rows
               /\ nextId' = p.nextId
               /\ prepped' = [prepped EXCEPT ![f] = p.prepped]
               /\ prepErrors' = IF p.err THEN prepErrors + 1 ELSE prepErrors
               /\ progress' = [progress EXCEPT !.files_processed = @ + 1]
               /\ hist' = [hist EXCEPT !.hashed = @ \cup p.hashed,
                                       !.faulted = @ \/ (flt # "none")]
               /\ UNCHANGED replicas
    /\ UNCHANGED <<auxVars, ctlVars, fsVars, candidates, worker, pos, filesCopied, countVars, errors, envs>>

\* prepare_backup_candidates: the worker of source root r takes its next
\* candidate; with the stop signal set it returns
Prepare(r, flt) ==
    /\ pc = "prepare"
    /\ cursor[r] <= Len(candidates[r])
    /\ IF stop
       THEN /\ flt = "none"
            /\ cursor' = [cursor EXCEPT ![r] = Len(candidates[r]) + 1]
            /\ UNCHANGED <<catVars, prepped, prepErrors, progress, faults, hist>>
       ELSE LET f == candidates[r][cursor[r]]
                p == prepare_single_candidate(f, mode, flt)
            IN /\ flt = "none" \/ (p.faulted /\ faults < lim.faults)
               /\ faults' = IF flt = "none" THEN faults ELSE faults + 1
               /\ cursor' = [cursor EXCEPT ![r] = @ + 1]
               /\ sources' = p.rows
               /\ nextId' = p.nextId
               /\ prepped' = [prepped EXCEPT ![f] = p.prepped]
               /\ prepErrors' = IF p.err THEN prepErrors + 1 ELSE prepErrors
               /\ progress' = [progress EXCEPT !.files_processed = @ + 1]
               /\ hist' = [hist EXCEPT !.hashed = @ \cup p.hashed,
                                       !.faulted = @ \/ (flt # "none")]
               /\ UNCHANGED replicas
    /\ UNCHANGED <<auxVars, ctlVars, fsVars, candidates, worker, pos, filesCopied, countVars, errors, envs>>

\* backup_files: the prepared vector is complete, phase 3 starts
StartCopy ==
    /\ pc = "prepare"
    /\ \A r \in SourceRoots : cursor[r] > Len(candidates[r])
    /\ pc' = "copy"
    /\ worker' = [f \in Files |-> IF prepped[f] # {} THEN "todo" ELSE "none"]
    /\ progress' = [phase |-> 3, files_processed |-> 0, bytes_processed |-> 0,
                    total_files |-> Cardinality({f \in Files : prepped[f] # {}})]
    /\ UNCHANGED <<auxVars, lim, cfg, mode, status, stop, result, runs, fsVars, catVars, candidates,
                   cursor, prepped, prepErrors, pos, filesCopied, countVars, errors, faults, envs, hist>>

\* a worker handed a PreppedBackup returns at once when the stop signal is set
SkipPrepped(f) ==
    /\ pc = "copy" /\ worker[f] = "todo" /\ stop
    /\ worker' = [worker EXCEPT ![f] = "done"]
    /\ UNCHANGED <<auxVars, ctlVars, fsVars, catVars, candidates, cursor, prepped, prepErrors, pos,
                   filesCopied, countVars, errors, progress, faults, envs, hist>>

\* the worker's next backup path: decision, copy, verification, catalog
\* write; the stop signal is read before the first path only, and after the
\* last path a worker that counted a copy adds its files_copied to the shared
\* file counter and keeps the sum as current_files
CopyDestination(f, flt) ==
    /\ pc = "copy"
    /\ worker[f] = "active" \/ (worker[f] = "todo" /\ ~stop)
    /\ LET p == CHOOSE x \in prepped[f] : TRUE
           d == p.backup_paths[pos[f]]
           o == process_destination(p, d, mode, flt)
           last == pos[f] = Len(p.backup_paths)
           n == IF o.counted THEN filesCopied[f] + 1 ELSE filesCopied[f]
       IN /\ flt = "none" \/ (o.faulted /\ faults < lim.faults)
          /\ faults' = IF flt = "none" THEN faults ELSE faults + 1
          /\ dstFs' = o.fs
          /\ replicas' = o.rows
          /\ pos' = [pos EXCEPT ![f] = @ + 1]
          /\ filesCopied' = [filesCopied EXCEPT ![f] = n]
          /\ errors' = IF o.pushed THEN errors + 1 ELSE errors
          /\ worker' = [worker EXCEPT ![f] = IF ~last THEN "active"
                                             ELSE IF n > 0 THEN "bytes" ELSE "done"]
          /\ backup_files_processed' = IF last THEN backup_files_processed + n
                                       ELSE backup_files_processed
          /\ current' = IF last /\ n > 0
                        THEN [current EXCEPT ![f].files = backup_files_processed + n]
                        ELSE current
          /\ hist' = [hist EXCEPT
                 !.hashed = @ \cup o.hashed,
                 !.copied = IF o.copied THEN @ \cup {<<f, d>>} ELSE @,
                 !.failed = IF o.failed THEN @ \cup {<<f, d>>} ELSE @,
                 !.reported = IF o.pushed THEN @ \cup {<<f, d>>} ELSE @,
                 !.verifyFailed = IF o.verifyFailed THEN @ \cup {<<f, d>>} ELSE @,
                 !.decisions = [@ EXCEPT ![<<f, d>>] = o.decision],
                 !.faulted = @ \/ (flt # "none")]
    /\ UNCHANGED <<auxVars, ctlVars, srcFs, now, sources, nextId, candidates, cursor, prepped,
                   prepErrors, backup_bytes_processed, progress, envs>>

\* the worker adds its bytes_copied to the shared byte counter and keeps the
\* sum as current_bytes
CountBytes(f) ==
    /\ pc = "copy" /\ worker[f] = "bytes"
    /\ LET p == CHOOSE x \in prepped[f] : TRUE
           sum == backup_bytes_processed + filesCopied[f] * p.file_size
       IN /\ backup_bytes_processed' = sum
          /\ current' = [current EXCEPT ![f].bytes = sum]
    /\ worker' = [worker EXCEPT ![f] = "publish"]
    /\ UNCHANGED <<auxVars, ctlVars, fsVars, catVars, candidates, cursor, prepped, prepErrors,
                   pos, filesCopied, backup_files_processed, errors, progress, faults, envs,
                   hist>>

\* the worker publishes its current_files and current_bytes with set_progress
PublishProgress(f) ==
    /\ pc = "copy" /\ worker[f] = "publish"
    /\ progress' = [progress EXCEPT !.files_processed = current[f].files,
                                    !.bytes_processed = current[f].bytes]
    /\ worker' = [worker EXCEPT ![f] = "done"]
    /\ UNCHANGED <<auxVars, ctlVars, fsVars, catVars, candidates, cursor, prepped, prepErrors,
                   pos, filesCopied, countVars, errors, faults, envs, hist>>

\* backup_files returns Ok whatever the accumulators hold
EndCopy ==
    /\ pc = "copy"
    /\ \A f \in Files : worker[f] \in {"none", "done"}
    /\ pc' = "finish"
    /\ result' = "ok"
    /\ UNCHANGED <<auxVars, lim, cfg, mode, status, stop, runs, fsVars, catVars, runVars, faults, envs, hist>>

\* the spawned task: complete_backup_run(None) after Ok, Some(error) after Err
CompleteBackupRun ==
    /\ pc = "finish"
    /\ status' = IF result = "err" THEN "FAILED" ELSE "COMPLETED"
    /\ pc' = "idle"
    /\ hist' = [hist EXCEPT !.lastClean =
                    /\ mode = "NONE" /\ result = "ok" /\ errors = 0 /\ prepErrors = 0
                    /\ ~stop /\ ~hist.faulted
                    /\ \A f \in Files : srcFs[f] # NoFile => worker[f] = "done"]
    /\ UNCHANGED <<auxVars, lim, cfg, mode, stop, result, runs, fsVars, catVars, runVars, faults, envs>>

Next ==
    \/ \E f \in EnvFiles, c \in Content, newer \in BOOLEAN : WriteSource(f, c, newer)
    \/ \E f \in EnvFiles, d \in EnvDests, c \in Content, t \in {0, now} : WriteReplica(f, d, c, t)
    \/ \E f \in EnvFiles, d \in EnvDests : DeleteReplica(f, d)
    \/ \E m \in Modes : StartBackup(m)
    \/ RequestStop
    \/ \E w \in BOOLEAN : Discover(w)
    \/ \E r \in SourceRoots, flt \in PrepFaults : Prepare(r, flt)
    \/ StartCopy
    \/ \E f \in Files : SkipPrepped(f)
    \/ \E f \in Files, flt \in CopyFaults : CopyDestination(f, flt)
    \/ \E f \in Files : CountBytes(f)
    \/ \E f \in Files : PublishProgress(f)
    \/ EndCopy
    \/ CompleteBackupRun

Spec == Init /\ [][Next]_vars

\* successive runs in mode NONE without failures or cancellation; a source
\* file is overwritten in a later second than its modification time
InitRerun ==
    \E backedUp \in SUBSET {"a"} :
        InitWith({"a"}, backedUp, [runs |-> RerunRuns, env |-> RerunEnv, faults |-> 0,
                                   modes |-> {"NONE"}])

NextRerun ==
    \/ \E f \in EnvFiles, c \in Content : WriteSource(f, c, TRUE)
    \/ \E f \in EnvFiles, d \in EnvDests, c \in Content, t \in {0, now} : WriteReplica(f, d, c, t)
    \/ \E f \in EnvFiles, d \in EnvDests : DeleteReplica(f, d)
    \/ \E m \in Modes : StartBackup(m)
    \/ Discover(FALSE)
    \/ \E r \in SourceRoots : Prepare(r, "none")
    \/ StartCopy
    \/ \E f \in Files : CopyDestination(f, "none")
    \/ \E f \in Files : CountBytes(f)
    \/ \E f \in Files : PublishProgress(f)
    \/ EndCopy
    \/ CompleteBackupRun

SpecRerun == InitRerun /\ [][NextRerun]_vars

\* ------------------------------------------- the handlers, step by step
\* The handlers of /start and /stop run on their own threads: each reads the
\* status, releases the lock and acts later. A run accepted while a task is
\* still executing gets a task of its own; pc keeps following the earlier
\* task, the later ones are counted in extra (their file operations are not
\* followed, their call of complete_backup_run is).
CtlRuns == 2
CtlStops == 1

\* start_backup, up to its status check
start_backup ==
    /\ runs + handlers.start < lim.runs
    /\ status # "RUNNING"
    /\ handlers' = [handlers EXCEPT !.start = @ + 1]
    /\ UNCHANGED <<ctlVars, fsVars, catVars, runVars, faults, envs, hist, extra, call,
                   eventVars, poolVars, appVars>>

\* start_backup after its check: start_backup_run and the spawn of the task
start_backup_run(m) ==
    /\ handlers.start > 0 /\ m \in lim.modes
    /\ handlers' = [handlers EXCEPT !.start = @ - 1]
    /\ stop' = FALSE
    /\ status' = "RUNNING"
    /\ progress' = DefaultProgress
    /\ runs' = runs + 1
    /\ IF pc = "idle"
       THEN /\ mode' = m
            /\ pc' = "discover"
            /\ result' = "none"
            /\ candidates' = [r \in SourceRoots |-> <<>>]
            /\ cursor' = [r \in SourceRoots |-> 1]
            /\ prepped' = [f \in Files |-> {}]
            /\ prepErrors' = 0
            /\ worker' = [f \in Files |-> "none"]
            /\ pos' = [f \in Files |-> 1]
            /\ filesCopied' = [f \in Files |-> 0]
            /\ backup_files_processed' = 0
            /\ backup_bytes_processed' = 0
            /\ current' = [f \in Files |-> NoCount]
            /\ errors' = 0
            /\ hist' = NewHist(hist.lastClean, hist.env, FALSE)
            /\ UNCHANGED extra
       ELSE /\ extra' = extra + 1
            /\ UNCHANGED <<mode, pc, result, candidates, cursor, prepped, prepErrors, worker,
                           pos, filesCopied, countVars, errors, hist>>
    /\ UNCHANGED <<lim, cfg, fsVars, catVars, faults, envs, call, eventVars, poolVars, appVars>>

\* stop_backup, up to its status check
stop_backup ==
    /\ handlers.stop < lim.stops
    /\ status = "RUNNING"
    /\ handlers' = [handlers EXCEPT !.stop = @ + 1]
    /\ UNCHANGED <<ctlVars, fsVars, catVars, runVars, faults, envs, hist, extra, call,
                   eventVars, poolVars, appVars>>

\* stop_backup after its check: AppState::request_stop
request_stop ==
    /\ handlers.stop > 0
    /\ handlers' = [handlers EXCEPT !.stop = @ - 1]
    /\ stop' = TRUE
    /\ status' = "STOPPING"
    /\ UNCHANGED <<lim, cfg, mode, pc, result, runs, fsVars, catVars, runVars, faults, envs,
                   hist, extra, call, eventVars, poolVars, appVars>>

\* a task counted in extra ends with run_backup returning Ok
ExtraCompletes ==
    /\ extra > 0
    /\ extra' = extra - 1
    /\ status' = "COMPLETED"
    /\ UNCHANGED <<lim, cfg, mode, stop, pc, result, runs, fsVars, catVars, runVars, faults,
                   envs, hist, handlers, call, eventVars, poolVars, appVars>>

\* runs in mode NONE over one source file, without I/O failures
InitCtl ==
    \E backedUp \in SUBSET {"a"} :
        InitWith({"a"}, backedUp, [runs |-> CtlRuns, env |-> 0, faults |-> 0,
                                   modes |-> {"NONE"}, stops |-> CtlStops])

NextCtl ==
    \/ start_backup
    \/ \E m \in Modes : start_backup_run(m)
    \/ stop_backup
    \/ request_stop
    \/ Discover(FALSE)
    \/ \E r \in SourceRoots : Prepare(r, "none")
    \/ StartCopy
    \/ \E f \in Files : SkipPrepped(f)
    \/ \E f \in Files : CopyDestination(f, "none")
    \/ \E f \in Files : CountBytes(f)
    \/ \E f \in Files : PublishProgress(f)
    \/ EndCopy
    \/ CompleteBackupRun
    \/ ExtraCompletes

SpecCtl == InitCtl /\ [][NextCtl]_vars

\* --------------------------------------------- the catalog, call by call
\* Calls of insert_source_row and insert_backup_row in any order and with any
\* arguments, as parallel workers issue them: SQLite executes each statement
\* atomically. Source_ID references Source_Files and foreign keys are on.
CatalogCalls == 3
CatalogTimes == 1..2
CatalogHashes == {hash_file([content |-> c]) : c \in Content}

foreign_key_ok(S, row) == \E s \in S : s.id = row.source_id

\* the ids insert_source_row has returned so far, by key (0: none)
ReturnedIds == IF call.op = "none" THEN [k \in Files |-> 0] ELSE call.ids
CallCount == IF call.op = "none" THEN 0 ELSE call.n

UpsertSource(key, hash, size, lm) ==
    /\ CallCount < CatalogCalls
    /\ LET row == [id |-> 0, key |-> key, hash |-> hash, file_size |-> size,
                   last_modified |-> lm]
           ins == insert_source_row(sources, nextId, row)
       IN /\ sources' = ins.rows
          /\ nextId' = ins.nextId
          /\ call' = [op |-> "insert_source_row", n |-> CallCount + 1, key |-> key,
                      row |-> row, id |-> ins.id, err |-> FALSE,
                      repeat |-> ReturnedIds[key] # 0,
                      ids |-> IF ReturnedIds[key] = 0
                              THEN [ReturnedIds EXCEPT ![key] = ins.id]
                              ELSE ReturnedIds]
    /\ UNCHANGED <<ctlVars, fsVars, replicas, runVars, faults, envs, hist, handlers,
                   extra, eventVars, poolVars, appVars>>

UpsertReplica(key, source_id, lm) ==
    /\ CallCount < CatalogCalls
    /\ LET row == [source_id |-> source_id, key |-> key, last_modified |-> lm]
           ok == foreign_key_ok(sources, row)
       IN /\ replicas' = IF ok THEN insert_backup_row(replicas, row) ELSE replicas
          /\ call' = [op |-> "insert_backup_row", n |-> CallCount + 1, key |-> key,
                      row |-> row, id |-> 0, err |-> ~ok,
                      repeat |-> \E r \in replicas : r.key = key,
                      ids |-> ReturnedIds]
    /\ UNCHANGED <<ctlVars, fsVars, sources, nextId, runVars, faults, envs, hist,
                   handlers, extra, eventVars, poolVars, appVars>>

InitCatalog ==
    /\ InitWith({}, {}, [runs |-> 0, env |-> 0, faults |-> 0, modes |-> {}])
    /\ cfg = DefaultConfig

NextCatalog ==
    \/ \E key \in Files, hash \in CatalogHashes, size \in Sizes, lm \in CatalogTimes :
           UpsertSource(key, hash, size, lm)
    \/ \E key \in Keys, id \in 0..Cardinality(Files), lm \in CatalogTimes :
           UpsertReplica(key, id, lm)

SpecCatalog == InitCatalog /\ [][NextCatalog]_vars

\* ------------------------------------------- updates of a source row
\* a Duration: whole seconds and the nanoseconds of the started second
SubsecNanos == {0, 500000000}
Durations == [secs : CatalogTimes, nanos : SubsecNanos]
as_secs(d) == d.secs

\* update_source_last_modified(row_id, last_modified), from any caller: the
\* UPDATE binds last_modified.as_secs(); a row_id without a row updates nothing
UpdateSourceLastModified(id, ts) ==
    /\ CallCount < CatalogCalls
    /\ sources' = update_source_last_modified(sources, id, as_secs(ts))
    /\ call' = [op |-> "update_source_last_modified", n |-> CallCount + 1, id |-> id,
                ts |-> ts, before |-> sources, ids |-> ReturnedIds]
    /\ UNCHANGED <<ctlVars, fsVars, replicas, nextId, runVars, faults, envs, hist,
                   handlers, extra, eventVars, poolVars, appVars>>

InitCatalogUpdate == InitCatalog

NextCatalogUpdate ==
    \/ \E key \in Files, hash \in CatalogHashes, size \in Sizes, lm \in CatalogTimes :
           UpsertSource(key, hash, size, lm)
    \/ \E key \in Keys, id \in 0..Cardinality(Files), lm \in CatalogTimes :
           UpsertReplica(key, id, lm)
    \/ \E id \in 0..Cardinality(Files), ts \in Durations : UpdateSourceLastModified(id, ts)

SpecCatalogUpdate == InitCatalogUpdate /\ [][NextCatalogUpdate]_vars

\* ------------------------------------------------------- replica paths
\* A path string is a sequence of characters, a path a sequence of names.
MAIN_SEPARATOR == "/"
PathNames == {<<"a">>, <<"a", "b">>, <<"a", ".", ".", "b">>}
MaxRootDepth == 2
MaxSubDepth == 1

RECURSIVE JoinNames(_)
JoinNames(names) ==
    IF names = <<>> THEN <<>>
    ELSE <<MAIN_SEPARATOR>> \o Head(names) \o JoinNames(Tail(names))
\* the string of the absolute path with these components
PathStr(names) == IF names = <<>> THEN <<MAIN_SEPARATOR>> ELSE JoinNames(names)

RECURSIVE SplitFrom(_, _, _)
SplitFrom(str, cur, acc) ==
    IF str = <<>> THEN (IF cur = <<>> THEN acc ELSE Append(acc, cur))
    ELSE IF Head(str) = MAIN_SEPARATOR
    THEN SplitFrom(Tail(str), <<>>, IF cur = <<>> THEN acc ELSE Append(acc, cur))
    ELSE SplitFrom(Tail(str), Append(cur, Head(str)), acc)
\* Path::components of a path string
Components(str) == SplitFrom(str, <<>>, <<>>)

\* str::starts_with, str::contains, str::trim_start_matches
str_starts_with(str, pat) == Len(pat) <= Len(str) /\ SubSeq(str, 1, Len(pat)) = pat
str_contains(str, pat) ==
    \E i \in 1..(Len(str) + 1) : i + Len(pat) - 1 <= Len(str)
                                  /\ SubSeq(str, i, i + Len(pat) - 1) = pat
RECURSIVE trim_start_matches(_, _)
trim_start_matches(str, pat) ==
    IF pat # <<>> /\ str_starts_with(str, pat)
    THEN trim_start_matches(SubSeq(str, Len(pat) + 1, Len(str)), pat)
    ELSE str

\* Path::starts_with: by whole components
path_starts_with(path, base) == Len(base) <= Len(path) /\ SubSeq(path, 1, Len(base)) = base

\* The destination side of the file system: fs.dirs are the directories that
\* exist, fs.links the symbolic links (at |-> to). resolve follows the links
\* along a path; canonicalize fails on a path that does not exist.
RECURSIVE ResolveFrom(_, _, _)
ResolveFrom(fs, done, rest) ==
    IF rest = <<>> THEN done
    ELSE LET next == Append(done, Head(rest))
         IN IF \E l \in fs.links : l.at = next
            THEN ResolveFrom(fs, (CHOOSE l \in fs.links : l.at = next).to, Tail(rest))
            ELSE ResolveFrom(fs, next, Tail(rest))
resolve(fs, path) == ResolveFrom(fs, <<>>, path)
canonicalize(fs, path) ==
    IF resolve(fs, path) \in fs.dirs THEN [ok |-> TRUE, path |-> resolve(fs, path)]
    ELSE [ok |-> FALSE, path |-> path]

\* get_possible_backups: the replica path of a candidate under every
\* destination, or an error; shared_path is the source root (its components)
get_possible_backups(file_name, file_path, shared_path, destinations, fs) ==
    LET trimmed == IF shared_path # <<>>
                   THEN PathStr(SubSeq(shared_path, 1, Len(shared_path) - 1))
                   ELSE PathStr(shared_path)
        relative_path == trim_start_matches(file_path, trimmed)
        backup_path(i) ==
            Components(destinations[i]) \o
            Components(trim_start_matches(relative_path, <<MAIN_SEPARATOR>>)) \o
            Components(file_name)
        inside(i) ==
            LET canonical_dest == canonicalize(fs, Components(destinations[i])).path
                backup_parent == SubSeq(backup_path(i), 1, Len(backup_path(i)) - 1)
                canonical_parent == canonicalize(fs, backup_parent).path
            IN path_starts_with(canonical_parent, canonical_dest)
    IN IF str_contains(relative_path, <<".", ".">>) THEN [err |-> TRUE, paths |-> <<>>]
       ELSE IF str_contains(file_name, <<".", ".">>)
               \/ str_contains(file_name, <<MAIN_SEPARATOR>>)
       THEN [err |-> TRUE, paths |-> <<>>]
       ELSE IF \E i \in 1..Len(destinations) : ~inside(i)
       THEN [err |-> TRUE, paths |-> <<>>]
       ELSE [err |-> FALSE, paths |-> [i \in 1..Len(destinations) |-> backup_path(i)]]

\* the configured destination roots, the directories that may exist under
\* them and outside, and a symbolic link inside the first destination
PathDestinations == <<PathStr(<<<<"d">>>>), PathStr(<<<<"e">>>>)>>
BaseDirs == {<<>>, <<<<"d">>>>, <<<<"e">>>>, <<<<"o">>>>}
MoreDirs == {<<<<"d">>, <<"a">>>>, <<<<"o">>, <<"a">>>>}
Links == {[at |-> <<<<"d">>, <<"a">>>>, to |-> <<<<"o">>>>]}
FsStates == {[dirs |-> BaseDirs \cup more, links |-> links] :
                more \in SUBSET MoreDirs, links \in SUBSET Links}
Roots == UNION {[1..n -> PathNames] : n \in 1..MaxRootDepth}
SubDirs == UNION {[1..n -> PathNames] : n \in 0..MaxSubDepth}

\* prepare_single_candidate's call for a file the walk found under root,
\* in the sub-directories sub (one call per behaviour)
PossibleBackups(root, sub, name, fs) ==
    /\ call = NoCall
    /\ LET r == get_possible_backups(name, PathStr(root \o sub), root, PathDestinations, fs)
       IN call' = [op |-> "get_possible_backups", root |-> root, sub |-> sub,
                   name |-> name, fs |-> fs, err |-> r.err, paths |-> r.paths]
    /\ UNCHANGED <<ctlVars, fsVars, catVars, runVars, faults, envs, hist, handlers, extra,
                   eventVars, poolVars, appVars>>

InitPaths ==
    /\ InitWith({}, {}, [runs |-> 0, env |-> 0, faults |-> 0, modes |-> {}])
    /\ cfg = DefaultConfig

NextPaths ==
    \E root \in Roots, sub \in SubDirs, name \in PathNames, fs \in FsStates :
        PossibleBackups(root, sub, name, fs)

SpecPaths == InitPaths /\ [][NextPaths]_vars

\* one run over two source files, one under each source root, with up to
\* PrepRunFaults failing calls and cancellation; no change from outside
PrepRunFaults == 2

InitPrep ==
    \E backedUp \in SUBSET Files :
        InitWith(Files, backedUp, [runs |-> MaxRuns, env |-> 0, faults |-> PrepRunFaults,
                                   modes |-> Modes])

NextPrep ==
    \/ \E m \in Modes : StartBackup(m)
    \/ RequestStop
    \/ \E w \in BOOLEAN : Discover(w)
    \/ \E r \in SourceRoots, flt \in PrepFaults : Prepare(r, flt)
    \/ StartCopy
    \/ \E f \in Files : SkipPrepped(f)
    \/ \E f \in Files, flt \in CopyFaults : CopyDestination(f, flt)
    \/ \E f \in Files : CountBytes(f)
    \/ \E f \in Files : PublishProgress(f)
    \/ EndCopy
    \/ CompleteBackupRun

SpecPrep == InitPrep /\ [][NextPrep]_vars

\* ------------------------------------------------- progress subscribers
\* subscribe_progress creates a tokio broadcast channel per subscriber and
\* keeps its sender; the stream of /events holds the receiver. A channel is
\* [id, queue, lagged, rx]: the events its receiver has not read yet, whether
\* one of them was overwritten, and whether the receiver still exists.
ChannelCapacity == 2
MaxPublishes == 4
MaxSubscriptions == 3
BackupStatus == {"IDLE", "RUNNING", "STOPPING", "COMPLETED", "FAILED"}

\* broadcast::Sender::send: an error only when no receiver is left; on a full
\* channel the oldest event is overwritten and the receiver has lagged
send(ch, event) ==
    IF ~ch.rx THEN [ok |-> FALSE, ch |-> ch]
    ELSE IF Len(ch.queue) = ChannelCapacity
    THEN [ok |-> TRUE, ch |-> [ch EXCEPT !.queue = Append(Tail(@), event), !.lagged = TRUE]]
    ELSE [ok |-> TRUE, ch |-> [ch EXCEPT !.queue = Append(@, event)]]

\* notify_progress_update: subscribers.retain(|tx| tx.send(event).is_ok())
notify_progress_update(subscribers, event) ==
    LET kept == SelectSeq(subscribers, LAMBDA ch : send(ch, event).ok)
    IN [i \in 1..Len(kept) |-> send(kept[i], event).ch]

\* subscribe_progress: a new channel, its sender pushed to the list
subscribe_progress(subscribers, id) ==
    Append(subscribers, [id |-> id, queue |-> <<>>, lagged |-> FALSE, rx |-> TRUE])

\* the receiver of channel id is dropped
drop_receiver(subscribers, id) ==
    [i \in 1..Len(subscribers) |->
        IF subscribers[i].id = id THEN [subscribers[i] EXCEPT !.rx = FALSE]
        ELSE subscribers[i]]

ChannelOf(id) ==
    progress_subscribers[CHOOSE i \in 1..Len(progress_subscribers) :
                             progress_subscribers[i].id = id]

engineVars == <<fsVars, catVars, faults, envs, hist, handlers, extra, call, poolVars, appVars>>

\* AppState::set_status: the status is stored, then published
set_status(s) ==
    /\ published < MaxPublishes
    /\ status' = s
    /\ published' = published + 1
    /\ progress_subscribers' =
           notify_progress_update(progress_subscribers,
               [n |-> published + 1, status |-> s,
                files_processed |-> progress.files_processed])
    /\ UNCHANGED <<lim, cfg, mode, stop, pc, result, runs, runVars, engineVars, receivers,
                   subscribed>>

\* AppState::set_progress: the progress is stored, then published
set_progress(n) ==
    /\ published < MaxPublishes
    /\ progress' = [progress EXCEPT !.files_processed = n]
    /\ published' = published + 1
    /\ progress_subscribers' =
           notify_progress_update(progress_subscribers,
               [n |-> published + 1, status |-> status, files_processed |-> n])
    /\ UNCHANGED <<ctlVars, candidates, cursor, prepped, prepErrors, worker, pos, filesCopied,
                   countVars, errors, engineVars, receivers, subscribed>>

\* GET /events: the handler subscribes and returns the stream
progress_events(c) ==
    /\ receivers[c] = 0 /\ subscribed < MaxSubscriptions
    /\ subscribed' = subscribed + 1
    /\ receivers' = [receivers EXCEPT ![c] = subscribed + 1]
    /\ progress_subscribers' = subscribe_progress(progress_subscribers, subscribed + 1)
    /\ UNCHANGED <<ctlVars, runVars, engineVars, published>>

\* the stream's receiver.recv() returns: an event is yielded, or after an
\* error (the receiver has lagged) the stream subscribes anew and its old
\* receiver is dropped
recv(c) ==
    /\ receivers[c] # 0
    /\ LET ch == ChannelOf(receivers[c])
       IN IF ch.lagged
          THEN /\ subscribed < MaxSubscriptions
               /\ subscribed' = subscribed + 1
               /\ receivers' = [receivers EXCEPT ![c] = subscribed + 1]
               /\ progress_subscribers' =
                      drop_receiver(subscribe_progress(progress_subscribers, subscribed + 1),
                                    ch.id)
          ELSE /\ ch.queue # <<>>
               /\ progress_subscribers' =
                      [i \in 1..Len(progress_subscribers) |->
                          IF progress_subscribers[i].id = ch.id
                          THEN [ch EXCEPT !.queue = Tail(@)]
                          ELSE progress_subscribers[i]]
               /\ UNCHANGED <<receivers, subscribed>>
    /\ UNCHANGED <<ctlVars, runVars, engineVars, published>>

\* the client closes the connection: the stream and its receiver are dropped
Disconnect(c) ==
    /\ receivers[c] # 0
    /\ receivers' = [receivers EXCEPT ![c] = 0]
    /\ progress_subscribers' = drop_receiver(progress_subscribers, receivers[c])
    /\ UNCHANGED <<ctlVars, runVars, engineVars, published, subscribed>>

InitEvents ==
    /\ InitWith({}, {}, [runs |-> 0, env |-> 0, faults |-> 0, modes |-> {}])
    /\ cfg = DefaultConfig

NextEvents ==
    \/ \E s \in BackupStatus : set_status(s)
    \/ \E n \in 0..1 : set_progress(n)
    \/ \E c \in Clients : progress_events(c)
    \/ \E c \in Clients : recv(c)
    \/ \E c \in Clients : Disconnect(c)

SpecEvents == InitEvents /\ [][NextEvents]_vars

\* ------------------------------------------------------------ the pool
\* set_db_pool builds the pool before it takes the write lock of DB_POOL;
\* get_connection takes the read lock; a pooled connection keeps its pool.
MaxPools == 3

\* (a variant in which a statement runs on whatever pool is current)
pool_of_global(conn) == DB_POOL
\* the pool a pooled connection's statements run on
pool_of(conn) == conn.pool

otherVars == <<ctlVars, fsVars, catVars, runVars, faults, envs, hist, handlers, extra, call,
               eventVars, appVars>>

\* set_db_pool up to the built pool (a local of the calling thread)
set_db_pool_build(t) ==
    /\ building.of[t] = NoPool /\ building.count < MaxPools
    /\ building' = [of |-> [building.of EXCEPT ![t] = building.count + 1],
                    count |-> building.count + 1]
    /\ UNCHANGED <<otherVars, DB_POOL, conns>>

\* set_db_pool: the store under the write lock
set_db_pool(t) ==
    /\ building.of[t] # NoPool
    /\ DB_POOL' = building.of[t]
    /\ building' = [building EXCEPT !.of[t] = NoPool]
    /\ UNCHANGED <<otherVars, conns>>

\* get_connection: under the read lock, a connection of the current pool or
\* the error "Database pool not initialized"
get_connection(t) ==
    /\ conns[t].state = "idle"
    /\ conns' = [conns EXCEPT ![t] =
                    IF DB_POOL = NoPool THEN [pool |-> NoPool, state |-> "error"]
                    ELSE [pool |-> DB_POOL, state |-> "held"]]
    /\ UNCHANGED <<otherVars, DB_POOL, building>>

\* the catalog operation runs its statement on the connection
Execute(t) ==
    /\ conns[t].state = "held"
    /\ conns' = [conns EXCEPT ![t] = [pool |-> conns[t].pool, state |-> "done",
                                      ran_on |-> pool_of(conns[t])]]
    /\ UNCHANGED <<otherVars, DB_POOL, building>>

\* the operation returns and the connection goes back to its pool
Return(t) ==
    /\ conns[t].state \in {"done", "error"}
    /\ conns' = [conns EXCEPT ![t] = NoConn]
    /\ UNCHANGED <<otherVars, DB_POOL, building>>

InitPool ==
    /\ InitWith({}, {}, [runs |-> 0, env |-> 0, faults |-> 0, modes |-> {}, pool |-> NoPool])
    /\ cfg = DefaultConfig

NextPool ==
    \/ \E t \in Threads : set_db_pool_build(t)
    \/ \E t \in Threads : set_db_pool(t)
    \/ \E t \in Threads : get_connection(t)
    \/ \E t \in Threads : Execute(t)
    \/ \E t \in Threads : Return(t)

SpecPool == InitPool /\ [][NextPool]_vars

\* ------------------------------------------- catalog initialisation
\* The database_file values of a configuration: none given, the two in-memory
\* forms, a file in a directory that exists and one in a directory that does
\* not. The validator accepts the empty string.
MaxReconfigurations == 2
DbFiles == {"", ":memory:", "file::memory:?cache=shared", "/data/catalog.db",
            "/missing/catalog.db"}
is_in_memory(db_file) == db_file \in {":memory:", "file::memory:?cache=shared"}
parent_exists(db_file) == db_file = "/data/catalog.db"

\* set_db_pool's result: Err for the empty string and when the pool cannot
\* open its connections
set_db_pool_ok(db_file) ==
    db_file # "" /\ (is_in_memory(db_file) \/ parent_exists(db_file))

\* what an entry path leaves behind: whether it goes on (to the runs), the
\* database of the pool it stored and whether setup_database created the schema
Database(ok, db_file, schema) == [ok |-> ok, db_file |-> db_file, schema |-> schema]
NoDatabase == Database(FALSE, "-", FALSE)

\* cli_main: set_db_pool(&config.database_file)?; setup_database()?
cli_main_database(db_file) ==
    IF set_db_pool_ok(db_file) THEN Database(TRUE, db_file, TRUE) ELSE NoDatabase

\* the server's start-up with a loaded configuration: on an error of
\* set_db_pool it falls back to ":memory:" and skips setup_database
build_rocket_database(db_file) ==
    IF set_db_pool_ok(db_file) THEN Database(TRUE, db_file, TRUE)
    ELSE Database(TRUE, ":memory:", FALSE)

\* reinitialize_database (a configuration change through the API)
reinitialize_database(db_path) ==
    LET db_file == IF db_path = "" THEN ":memory:" ELSE db_path
    IN IF ~is_in_memory(db_file)
       THEN IF ~parent_exists(db_file) THEN Database(TRUE, ":memory:", TRUE)
            ELSE IF set_db_pool_ok(db_file) THEN Database(TRUE, db_file, TRUE)
            ELSE Database(TRUE, ":memory:", FALSE)
       ELSE IF set_db_pool_ok(db_file) THEN Database(TRUE, db_file, TRUE)
            ELSE NoDatabase

\* an entry path has run with database_file db_file and left database db
Entered(op, db_file, db) ==
    /\ call' = [op |-> op, db_file |-> db_file, db |-> db,
                program |-> IF call = NoCall THEN op ELSE call.program,
                configured |-> (IF call = NoCall THEN <<>> ELSE call.configured)
                               \o <<db_file>>]
    /\ IF db.db_file # "-"
       THEN /\ DB_POOL' = building.count + 1
            /\ building' = [building EXCEPT !.count = @ + 1]
       ELSE UNCHANGED <<DB_POOL, building>>
    /\ UNCHANGED <<ctlVars, fsVars, catVars, runVars, faults, envs, hist, handlers, extra,
                   eventVars, conns, appVars>>

\* the command-line program starts
cli_main(db_file) ==
    /\ call = NoCall
    /\ Entered("cli_main", db_file, cli_main_database(db_file))

\* the server starts with a configuration file
build_rocket(db_file) ==
    /\ call = NoCall
    /\ Entered("build_rocket", db_file, build_rocket_database(db_file))

\* PUT /config and the other handlers that change the configuration
update_config(db_file) ==
    /\ call # NoCall /\ call.program = "build_rocket"
    /\ Len(call.configured) <= MaxReconfigurations
    /\ Entered("reinitialize_database", db_file, reinitialize_database(db_file))

InitStartup ==
    /\ InitWith({}, {}, [runs |-> 0, env |-> 0, faults |-> 0, modes |-> {}, pool |-> NoPool])
    /\ cfg = DefaultConfig

NextStartup ==
    \/ \E db_file \in DbFiles : cli_main(db_file)
    \/ \E db_file \in DbFiles : build_rocket(db_file)
    \/ \E db_file \in DbFiles : update_config(db_file)

SpecStartup == InitStartup /\ [][NextStartup]_vars

\* ------------------------------------------------- the hasher's loop
\* hasher reads into a buffer of BufferSize bytes until a read returns 0 or
\* the bytes read reach max_bytes. The sizes are scaled: a mebibyte is a
\* whole number of buffers, as 1048576 is of 8192.
BufferSize == 2
Mebibyte == 4
MaxMebibytes == 2
MaxFileLen == 10

Min(a, b) == IF a < b THEN a ELSE b

\* hash_file: the file is opened, max_bytes computed, nothing read yet
HashFile(len, max_mebibytes_bytes) ==
    /\ call = NoCall
    /\ call' = [op |-> "hasher", len |-> len, max_bytes |-> max_mebibytes_bytes * Mebibyte,
                bytes_read |-> 0, short |-> FALSE, done |-> FALSE]
    /\ UNCHANGED <<ctlVars, fsVars, catVars, runVars, faults, envs, hist, handlers, extra,
                   eventVars, poolVars, appVars>>

\* one iteration of hasher's loop: read returns count bytes (0 at the end of
\* the file only, otherwise any number up to the buffer and the rest of the
\* file), which are all fed to the digest
hasher(count) ==
    /\ call.op = "hasher" /\ ~call.done
    /\ count <= Min(BufferSize, call.len - call.bytes_read)
    /\ count = 0 <=> call.bytes_read = call.len
    /\ call' = IF count = 0 THEN [call EXCEPT !.done = TRUE]
               ELSE [call EXCEPT
                       !.bytes_read = @ + count,
                       !.short = @ \/ count < Min(BufferSize, call.len - call.bytes_read),
                       !.done = call.bytes_read + count >= call.max_bytes]
    /\ UNCHANGED <<ctlVars, fsVars, catVars, runVars, faults, envs, hist, handlers, extra,
                   eventVars, poolVars, appVars>>

InitHasher ==
    /\ InitWith({}, {}, [runs |-> 0, env |-> 0, faults |-> 0, modes |-> {}])
    /\ cfg = DefaultConfig

NextHasher ==
    \/ \E len \in 0..MaxFileLen, n \in 1..MaxMebibytes : HashFile(len, n)
    \/ \E count \in 0..BufferSize : hasher(count)

SpecHasher == InitHasher /\ [][NextHasher]_vars

\* one run over source roots that hold a file or none, with a catalog that
\* knows the files or not, with failures and cancellation
InitDiscovery ==
    \E existing \in SUBSET Files, backedUp \in SUBSET Files :
        InitWith(existing, backedUp, [runs |-> MaxRuns, env |-> 0, faults |-> MaxFaults,
                                      modes |-> Modes])

NextDiscovery ==
    \/ \E m \in Modes : StartBackup(m)
    \/ RequestStop
    \/ \E w \in BOOLEAN : Discover(w)
    \/ \E r \in SourceRoots, flt \in PrepFaults : Prepare(r, flt)
    \/ StartCopy
    \/ \E f \in Files : SkipPrepped(f)
    \/ \E f \in Files, flt \in CopyFaults : CopyDestination(f, flt)
    \/ \E f \in Files : CountBytes(f)
    \/ \E f \in Files : PublishProgress(f)
    \/ EndCopy
    \/ CompleteBackupRun

SpecDiscovery == InitDiscovery /\ [][NextDiscovery]_vars

\* ------------------------------------------- classifying known sources
\* a source file's modification time is set to a later second, its bytes kept
TouchSource(f) ==
    /\ pc = "idle" /\ runs < lim.runs /\ envs < lim.env
    /\ srcFs[f] # NoFile /\ now < MaxTime
    /\ now' = now + 1
    /\ srcFs' = [srcFs EXCEPT ![f].mtime = now + 1]
    /\ envs' = envs + 1
    /\ hist' = [hist EXCEPT !.env = Noted(Change("touch", f, "-", TRUE, FALSE, FALSE))]
    /\ UNCHANGED <<auxVars, ctlVars, dstFs, catVars, runVars, faults>>

\* one run after up to ClassifyEnv changes of a source file from outside:
\* overwritten in a later second or within the same second, or touched
ClassifyEnv == 2

InitClassify ==
    \E backedUp \in SUBSET {"a"} :
        InitWith({"a"}, backedUp, [runs |-> MaxRuns, env |-> ClassifyEnv, faults |-> 0,
                                   modes |-> Modes])

NextClassify ==
    \/ \E f \in EnvFiles, c \in Content, newer \in BOOLEAN : WriteSource(f, c, newer)
    \/ \E f \in EnvFiles : TouchSource(f)
    \/ \E m \in Modes : StartBackup(m)
    \/ Discover(FALSE)
    \/ \E r \in SourceRoots : Prepare(r, "none")
    \/ StartCopy
    \/ \E f \in Files : CopyDestination(f, "none")
    \/ \E f \in Files : CountBytes(f)
    \/ \E f \in Files : PublishProgress(f)
    \/ EndCopy
    \/ CompleteBackupRun

SpecClassify == InitClassify /\ [][NextClassify]_vars

\* ------------------------------------------------------------ the walker
\* A source tree: entries by their path below the root (a sequence of
\* names), each a directory or a file. WalkDir keeps a stack with one list of
\* unread entries per open directory; a directory is pushed when it is
\* yielded and popped when its list is empty or lies deeper than max_depth.
MaxTreeDepth == 3
MaxEntries == 4
WalkNames == {"k", "s"}
RootNames == {"root", "s"}
SkipDirs == {{}, {"s"}}
ReadDirOrders == {<<"k", "s">>, <<"s", "k">>}
TreePaths == UNION {[1..n -> WalkNames] : n \in 1..MaxTreeDepth}
TreeEntries == [path : TreePaths, dir : BOOLEAN]
ParentPath(path) == SubSeq(path, 1, Len(path) - 1)
CanHold(tree, e) ==
    /\ \A x \in tree : x.path # e.path
    /\ Len(e.path) = 1 \/ [path |-> ParentPath(e.path), dir |-> TRUE] \in tree

\* the trees of at most n entries
RECURSIVE TreesUpTo(_)
TreesUpTo(n) ==
    IF n = 0 THEN {{}}
    ELSE LET smaller == TreesUpTo(n - 1)
         IN smaller \cup
            UNION {{tree \cup {e} : e \in {x \in TreeEntries : CanHold(tree, x)}} :
                       tree \in smaller}

is_dir(tree, path) == path = <<>> \/ [path |-> path, dir |-> TRUE] \in tree
file_name(root, path) == IF path = <<>> THEN root ELSE path[Len(path)]

\* read_dir of a directory: its entries in the order the system lists them
read_dir(tree, path, order) ==
    LET names == SelectSeq(order, LAMBDA n : \E e \in tree : e.path = Append(path, n))
    IN [i \in 1..Len(names) |-> Append(path, names[i])]

pop(stack) == SubSeq(stack, 1, Len(stack) - 1)

\* (a variant that leaves the stack as it is)
skip_current_dir_ignored(stack) == stack

\* IntoIter::skip_current_dir
skip_current_dir(stack) == IF stack # <<>> THEN pop(stack) ELSE stack

\* IntoIter::next after the root was yielded: the next entry and the stack
\* after it, or no entry when the stack is empty
RECURSIVE dir_walk_next(_, _, _, _)
dir_walk_next(tree, order, max_depth, stack) ==
    IF stack = <<>> THEN [some |-> FALSE, path |-> <<>>, stack |-> stack]
    ELSE IF Len(stack) > max_depth THEN dir_walk_next(tree, order, max_depth, pop(stack))
    ELSE LET top == stack[Len(stack)]
         IN IF top = <<>> THEN dir_walk_next(tree, order, max_depth, pop(stack))
            ELSE LET dent == Head(top)
                     rest == [stack EXCEPT ![Len(stack)] = Tail(top)]
                 IN [some |-> TRUE, path |-> dent,
                     stack |-> IF is_dir(tree, dent)
                               THEN Append(rest, read_dir(tree, dent, order))
                               ELSE rest]

\* get_files_in_path is called: WalkDir::new(dir).max_depth(..).into_iter()
get_files_in_path_enter(tree, root, skip_dirs, max_depth, order) ==
    /\ call = NoCall
    /\ call' = [op |-> "get_files_in_path", tree |-> tree, root |-> root,
                skip_dirs |-> skip_dirs, max_depth |-> max_depth, order |-> order,
                start |-> TRUE, stack |-> <<>>, files |-> <<>>, done |-> FALSE]
    /\ UNCHANGED <<ctlVars, fsVars, catVars, runVars, faults, envs, hist, handlers, extra,
                   eventVars, poolVars, appVars>>

\* one iteration of the while loop of get_files_in_path
get_files_in_path_loop ==
    /\ call.op = "get_files_in_path" /\ ~call.done
    /\ LET n == IF call.start
                THEN [some |-> TRUE, path |-> <<>>,
                      stack |-> <<read_dir(call.tree, <<>>, call.order)>>]
                ELSE dir_walk_next(call.tree, call.order, call.max_depth, call.stack)
       IN call' =
            IF ~n.some THEN [call EXCEPT !.done = TRUE, !.stack = n.stack]
            ELSE IF is_dir(call.tree, n.path)
                    /\ file_name(call.root, n.path) \in call.skip_dirs
            THEN [call EXCEPT !.start = FALSE, !.stack = skip_current_dir(n.stack)]
            ELSE IF is_dir(call.tree, n.path)
            THEN [call EXCEPT !.start = FALSE, !.stack = n.stack]
            ELSE [call EXCEPT !.start = FALSE, !.stack = n.stack,
                              !.files = Append(@, n.path)]
    /\ UNCHANGED <<ctlVars, fsVars, catVars, runVars, faults, envs, hist, handlers, extra,
                   eventVars, poolVars, appVars>>

InitWalk ==
    /\ InitWith({}, {}, [runs |-> 0, env |-> 0, faults |-> 0, modes |-> {}])
    /\ cfg = DefaultConfig

NextWalk ==
    \/ \E tree \in TreesUpTo(MaxEntries), root \in RootNames, skip_dirs \in SkipDirs,
          max_depth \in 1..MaxTreeDepth, order \in ReadDirOrders :
           get_files_in_path_enter(tree, root, skip_dirs, max_depth, order)
    \/ get_files_in_path_loop

SpecWalk == InitWalk /\ [][NextWalk]_vars

\* ------------------------------------- AppState, guard by guard
\* Each operation of AppState as the sequence of its lock acquisitions, reads,
\* writes and guard drops. A guard that is a temporary of one statement is
\* dropped at the end of that statement; the current_run guard of
\* complete_backup_run lives to the end of the function. std::sync::Mutex is
\* not reentrant: a thread that locks a Mutex it holds never gets it.
AppCalls == 2
HistoryCalls == 4
MAX_HISTORY_ENTRIES == 2
ProgressCounts == {1}

\* *self.field.lock().unwrap() = value, or a read of the field
locked(m, ins) == << <<"lock", m>>, ins, <<"unlock", m>> >>

\* (a variant of notify_progress_update that also reads the current run)
notify_body_reads_current_run ==
    locked("current_run", <<"get_current_run", "">>)
    \o locked("status", <<"get_status", "">>)
    \o locked("progress", <<"get_progress", "">>)
    \o locked("progress_subscribers", <<"retain_send", "">>)

\* notify_progress_update and notify_message: get_status, get_progress, then
\* subscribers.retain(..) under the guard of progress_subscribers
notify_body ==
    locked("status", <<"get_status", "">>)
    \o locked("progress", <<"get_progress", "">>)
    \o locked("progress_subscribers", <<"retain_send", "">>)

set_status_body(s) == locked("status", <<"store_status", s>>) \o notify_body
set_progress_body(n) == locked("progress", <<"store_progress", n>>) \o notify_body
update_progress_body(n) == locked("progress", <<"update_progress", n>>) \o notify_body
request_stop_body == << <<"store_stop", TRUE>> >> \o set_status_body("STOPPING")
start_backup_run_body ==
    locked("current_run", <<"store_current_run", "">>)
    \o << <<"store_stop", FALSE>> >>
    \o set_status_body("RUNNING")
    \o set_progress_body(0)

\* (a variant of complete_backup_run that pushes the entry to the back)
complete_backup_run_body_push_back(error) ==
    << <<"lock", "current_run">>, <<"if_current_run", "">> >>
    \o locked("progress", <<"get_progress", "">>)
    \o locked("history", <<"push_back", "">>)
    \o set_status_body(IF error THEN "FAILED" ELSE "COMPLETED")
    \o << <<"unlock", "current_run">> >>

\* complete_backup_run: everything under the guard of current_run
complete_backup_run_body(error) ==
    << <<"lock", "current_run">>, <<"if_current_run", "">> >>
    \o locked("progress", <<"get_progress", "">>)
    \o locked("history", <<"push_front", "">>)
    \o set_status_body(IF error THEN "FAILED" ELSE "COMPLETED")
    \o << <<"unlock", "current_run">> >>

AppStateOps ==
    {"set_status", "set_progress", "update_progress", "request_stop", "start_backup_run",
     "complete_backup_run", "subscribe_progress", "notify_message", "get_history",
     "clear_history", "get_status", "get_progress", "get_current_run"}

\* the instructions of operation op with the arguments s, n and error
Body(op, s, n, error) ==
    CASE op = "set_status" -> set_status_body(s)
      [] op = "set_progress" -> set_progress_body(n)
      [] op = "update_progress" -> update_progress_body(n)
      [] op = "request_stop" -> request_stop_body
      [] op = "start_backup_run" -> start_backup_run_body
      [] op = "complete_backup_run" -> complete_backup_run_body(error)
      [] op = "subscribe_progress" -> locked("progress_subscribers", <<"push", "">>)
      [] op = "notify_message" -> notify_body
      [] op = "get_history" -> locked("history", <<"get_history", "">>)
      [] op = "clear_history" -> locked("history", <<"clear", "">>)
      [] op = "get_status" -> locked("status", <<"get_status", "">>)
      [] op = "get_progress" -> locked("progress", <<"get_progress", "">>)
      [] op = "get_current_run" -> locked("current_run", <<"get_current_run", "">>)

\* the arguments an operation takes (the others are fixed)
ArgsOf(op) ==
    [s : IF op = "set_status" THEN {"FAILED"} ELSE {"IDLE"},
     n : IF op \in {"set_progress", "update_progress"} THEN ProgressCounts ELSE {0},
     error : IF op = "complete_backup_run" THEN BOOLEAN ELSE {FALSE}]

\* BackupHistoryEntry of the run being completed, from the progress read before
HistoryEntry(f, at) ==
    [id |-> current_run.id, status |-> IF f.error THEN "FAILED" ELSE "COMPLETED",
     error |-> f.error, files_processed |-> f.event.files_processed, completed_at |-> at]

\* push_front, then pop_back when the length exceeds MAX_HISTORY_ENTRIES
push_front(h, e) ==
    LET longer == <<e>> \o h
    IN IF Len(longer) > MAX_HISTORY_ENTRIES THEN SubSeq(longer, 1, Len(longer) - 1)
       ELSE longer

\* a thread calls an operation of AppState
Call(t, op, a) ==
    /\ frames[t] = NoFrame
    /\ op \in lim.ops /\ CallCount < lim.calls
    /\ frames' = [frames EXCEPT ![t] = [NoFrame EXCEPT !.op = op, !.error = a.error,
                                                         !.code = Body(op, a.s, a.n, a.error)]]
    /\ call' = [op |-> op, n |-> CallCount + 1]
    /\ UNCHANGED <<ctlVars, fsVars, catVars, runVars, faults, envs, hist, handlers, extra,
                   eventVars, poolVars, current_run, history, mutexes>>

\* the thread's next instruction; lock waits for the Mutex to be free, the
\* operation returns with its last instruction
Step(t) ==
    /\ frames[t] # NoFrame
    /\ LET f == frames[t]
           ins == Head(f.code)
           i == ins[1]
           rest == IF i = "if_current_run" /\ current_run = NoRun
                   THEN << <<"unlock", "current_run">> >>
                   ELSE Tail(f.code)
           g == [f EXCEPT
                   !.code = rest,
                   !.pushes = IF i \in {"push_front", "push_back"} THEN @ + 1 ELSE @,
                   !.event = IF i = "get_status" THEN [@ EXCEPT !.status = status]
                             ELSE IF i = "get_progress"
                             THEN [@ EXCEPT !.files_processed = progress.files_processed]
                             ELSE @]
       IN /\ i = "lock" => mutexes[ins[2]] = NoThread
          /\ frames' = [frames EXCEPT ![t] = IF g.code = <<>> THEN NoFrame ELSE g]
          /\ mutexes' = IF i = "lock" THEN [mutexes EXCEPT ![ins[2]] = t]
                        ELSE IF i = "unlock" THEN [mutexes EXCEPT ![ins[2]] = NoThread]
                        ELSE mutexes
          /\ status' = IF i = "store_status" THEN ins[2] ELSE status
          /\ stop' = IF i = "store_stop" THEN ins[2] ELSE stop
          /\ progress' = IF i = "store_progress"
                         THEN [DefaultProgress EXCEPT !.files_processed = ins[2]]
                         ELSE IF i = "update_progress"
                         THEN [progress EXCEPT !.files_processed = ins[2]]
                         ELSE progress
          /\ current_run' = IF i = "store_current_run" THEN [id |-> runs + 1] ELSE current_run
          /\ runs' = IF i = "store_current_run" THEN runs + 1 ELSE runs
          /\ IF i \in {"push_front", "push_back"}
             THEN \E dt \in 0..1 :
                    /\ now' = now + dt
                    /\ history' = IF i = "push_front"
                                  THEN push_front(history, HistoryEntry(f, now + dt))
                                  ELSE Append(history, HistoryEntry(f, now + dt))
             ELSE /\ history' = IF i = "clear" THEN <<>> ELSE history
                  /\ UNCHANGED now
          /\ progress_subscribers' =
                 IF i = "push"
                 THEN subscribe_progress(progress_subscribers, subscribed + 1)
                 ELSE IF i = "retain_send"
                 THEN notify_progress_update(progress_subscribers,
                          [n |-> published + 1, status |-> f.event.status,
                           files_processed |-> f.event.files_processed])
                 ELSE progress_subscribers
          /\ subscribed' = IF i = "push" THEN subscribed + 1 ELSE subscribed
          /\ published' = IF i = "retain_send" THEN published + 1 ELSE published
    /\ UNCHANGED <<cfg, mode, pc, result, lim, srcFs, dstFs, catVars, candidates, cursor,
                   prepped, prepErrors, worker, pos, filesCopied, countVars, errors, faults,
                   envs, hist, handlers, extra, call, receivers, poolVars>>

\* two threads, AppCalls calls of any operation between them, before the
\* first run is started or after start_backup_run has returned
InitAppState ==
    /\ \E started \in BOOLEAN :
           InitWith({}, {}, [runs |-> 0, env |-> 0, faults |-> 0, modes |-> {},
                             ops |-> AppStateOps, calls |-> AppCalls, started |-> started])
    /\ cfg = DefaultConfig

NextAppState ==
    \/ \E t \in Threads, op \in AppStateOps : \E a \in ArgsOf(op) : Call(t, op, a)
    \/ \E t \in Threads : Step(t)

SpecAppState == InitAppState /\ [][NextAppState]_vars

\* every thread in a call is scheduled again and again; a Mutex is handed to
\* a waiting thread at the latest when no other thread takes it any more
SpecAppStateFair ==
    InitAppState /\ [][NextAppState]_vars /\ \A t \in Threads : WF_vars(Step(t))

\* start_backup_run, complete_backup_run and clear_history in any order,
\* HistoryCalls calls between two threads
InitHistory ==
    /\ InitWith({}, {}, [runs |-> 0, env |-> 0, faults |-> 0, modes |-> {},
                         ops |-> {"start_backup_run", "complete_backup_run",
                                  "clear_history"},
                         calls |-> HistoryCalls])
    /\ cfg = DefaultConfig

NextHistory ==
    \/ \E t \in Threads, op \in AppStateOps : \E a \in ArgsOf(op) : Call(t, op, a)
    \/ \E t \in Threads : Step(t)

SpecHistory == InitHistory /\ [][NextHistory]_vars

\* ------------------------------- a configuration change during a run
\* POST /api/config validates the configuration and calls
\* reinitialize_database whatever the status of AppState is. The server was
\* started on RunDatabase; a pool on the same file opens the same catalog, a
\* pool on any other database opens a catalog that setup_database has just
\* created: empty tables, ids from 1. Followed up to the first change.
RunDatabase == "/data/catalog.db"

set_config(db_file) ==
    /\ call = NoCall
    /\ LET db == reinitialize_database(db_file)
       IN /\ db.ok /\ db.schema
          /\ call' = [op |-> "set_config", db_file |-> db_file, db |-> db]
          /\ DB_POOL' = building.count + 1
          /\ building' = [building EXCEPT !.count = @ + 1]
          /\ IF db.db_file = RunDatabase
             THEN UNCHANGED catVars
             ELSE /\ sources' = {}
                  /\ replicas' = {}
                  /\ nextId' = 1
    /\ UNCHANGED <<ctlVars, fsVars, runVars, faults, envs, hist, handlers, extra, eventVars,
                   conns, appVars>>

\* one run in mode NONE over two source files, without failures or
\* cancellation, and one configuration change at any moment
InitReconfigure ==
    \E backedUp \in SUBSET Files :
        InitWith(Files, backedUp, [runs |-> MaxRuns, env |-> 0, faults |-> 0,
                                   modes |-> {"NONE"}])

NextReconfigure ==
    \/ \E m \in Modes : StartBackup(m)
    \/ Discover(FALSE)
    \/ \E r \in SourceRoots : Prepare(r, "none")
    \/ StartCopy
    \/ \E f \in Files : CopyDestination(f, "none")
    \/ \E f \in Files : CountBytes(f)
    \/ \E f \in Files : PublishProgress(f)
    \/ EndCopy
    \/ CompleteBackupRun
    \/ \E db_file \in DbFiles : set_config(db_file)

SpecReconfigure == InitReconfigure /\ [][NextReconfigure]_vars

\* ================================================================ claims
AfterRun == pc = "idle" /\ runs > 0 /\ hist.env = NoChange
Undisturbed == ~stop /\ ~hist.faulted
ReplicaRows(R, k) == {r \in R : r.key = k}
SourceRows(S, f) == {r \in S : r.key = f}
Discovered == {f \in Files : srcFs[f] # NoFile}

\* C1: after a run in mode NONE that completed with empty error accumulators,
\* every discovered source file has at every destination a replica with the
\* source's prefix hash and a replica row, whatever the configuration and the
\* prior state. Stated for the most favourable case: no cancellation, no I/O
\* failure, the destinations as the previous clean run left them. Violated:
\* with skip_source_hash_check_if_newer the PreppedBackup of a changed source
\* carries the catalog's old hash.
C1_EveryReplicaCurrent ==
    (/\ AfterRun /\ mode = "NONE" /\ status = "COMPLETED"
     /\ errors = 0 /\ prepErrors = 0 /\ Undisturbed
     /\ hist.prevClean /\ hist.change.kind \in {"none", "source"})
    => \A f \in Discovered, d \in Dests :
           /\ dstFs[<<f, d>>] # NoFile
           /\ hash_file(dstFs[<<f, d>>]) = hash_file(srcFs[f])
           /\ ReplicaRows(replicas, <<f, d>>) # {}

\* C2: in the dry-run modes QUICK and FULL no step changes a destination
\* file or a row of either table: until the next outside change the
\* destinations and the catalog are what they were when the run started.
C2_DryRunWritesNothing ==
    (runs > 0 /\ is_dry_run(mode) /\ hist.env = NoChange)
    => /\ dstFs = hist.dst0
       /\ sources = hist.sources0
       /\ replicas = hist.replicas0
       /\ hist.copied = {}

\* a dry run that decided to copy, and one that met a matching unknown file
C2_Witness ==
    /\ AfterRun /\ mode = "FULL" /\ status = "COMPLETED"
    /\ \E k \in Keys : hist.decisions[k] = "true"
    /\ \E k \in Keys : hist.decisions[k] = "false" /\ ReplicaRows(replicas, k) = {}

C4_SourceModifiedPropagates ==
    \A f \in Files :
        (/\ AfterRun /\ mode = "NONE" /\ Undisturbed /\ hist.prevClean
         /\ hist.change = Change("source", f, "-", TRUE, TRUE, TRUE))
        => /\ \A d \in Dests :
                  /\ dstFs[<<f, d>>] # NoFile
                  /\ dstFs[<<f, d>>].content = srcFs[f].content
                  /\ \E r \in ReplicaRows(replicas, <<f, d>>) :
                         r.last_modified = dstFs[<<f, d>>].mtime
           /\ \E r \in SourceRows(sources, f) :
                  r.hash = hash_file(srcFs[f]) /\ r.file_size = srcFs[f].content.size

C6_DeletedReplicaRestored ==
    \A k \in Keys :
        (/\ AfterRun /\ mode = "NONE" /\ Undisturbed /\ hist.prevClean
         /\ hist.change = Change("delete", k[1], k[2], FALSE, FALSE, FALSE)
         /\ ~cfg.force_overwrite_backup)
        => /\ dstFs[k] # NoFile
           /\ dstFs[k].content = srcFs[k[1]].content
           /\ \A o \in Keys \ {k} :
                  /\ o \notin hist.copied
                  /\ dstFs[o] = hist.dst0[o]
                  /\ ReplicaRows(replicas, o) = ReplicaRows(hist.replicas0, o)

\* C7: a FULL dry run reaches the source_changed value, the hash and the
\* should-copy decisions a NONE run reaches from the same state. Compared
\* here: the PreppedBackup and the decisions of a FULL run against what
\* prepare_single_candidate and is_backup_required yield in mode NONE on the
\* (unchanged) catalog and file systems. Violated: the dry run skips the
\* catalog lookups and classifies every source as new.
C7_FullDecidesAsNone ==
    \A f \in Files :
        (/\ mode = "FULL" /\ pc \in {"copy", "finish"} /\ Undisturbed /\ prepped[f] # {})
        => LET full == CHOOSE x \in prepped[f] : TRUE
               none == prepare_single_candidate(f, "NONE", "none")
               np == CHOOSE x \in none.prepped : TRUE
           IN /\ none.prepped # {}
              /\ full.updated = np.updated
              /\ full.hash = np.hash
              /\ (none.rows = sources /\ ~cfg.force_overwrite_backup)
                  => \A d \in Dests :
                         hist.decisions[<<f, d>>] \in
                             {"none", IF is_backup_required(np, d, "NONE", "none").required
                                      THEN "true" ELSE "false"}

\* C8: in mode QUICK the hasher is never invoked, a source without a row
\* gets the sentinel hash and a source with a row keeps the catalog's hash.
\* Violated: the quick run never reads the catalog, so a known source gets
\* the sentinel too.
C8_QuickNeverHashes ==
    (runs > 0 /\ mode = "QUICK" /\ hist.env = NoChange)
    => /\ hist.hashed = {}
       /\ \A f \in Files : \A p \in prepped[f] :
              p.hash = IF SourceRows(sources, f) = {} THEN QuickSentinel
                       ELSE (CHOOSE r \in SourceRows(sources, f) : TRUE).hash

\* C9: a run ends FAILED only after a setup-level error; the model's runs
\* start after the setup, so every error in them belongs to a file, a
\* directory entry or a destination and the run ends COMPLETED. Violated: a
\* walk error is returned by get_source_files and fails the run.
C9_InRunErrorsComplete ==
    AfterRun => status = "COMPLETED"

\* C10: every error that arises in phase 3 for a (PreppedBackup, destination)
\* pair is added to the accumulator: the error count is the number of
\* destinations that failed. Violated: an Err of is_backup_required is
\* dropped by `else if let Ok(required)`.
C10_EveryCopyErrorAccumulated ==
    (runs > 0 /\ pc \in {"finish", "idle"} /\ hist.env = NoChange)
    => errors = Cardinality(hist.failed)

\* C12: in phase 3 the stop signal is checked before each destination
\* iteration: once it is set no worker starts a should-copy decision or a
\* copy for a further destination path, the remaining destinations of the
\* PreppedBackup it is processing included. Violated: the signal is read once
\* per PreppedBackup, before its first destination.
C12_StopCheckedPerDestination ==
    [][(stop /\ pc = "copy")
       => (hist'.decisions = hist.decisions /\ hist'.copied = hist.copied)]_vars

\* C16: every replica row's source_id is the id of an existing source row,
\* and the placeholder id 0 of the dry runs is never written to Backup_Files.
C16_ReplicaRowsReferenceSources ==
    \A r \in replicas : r.source_id # 0 /\ \E s \in sources : s.id = r.source_id

\* a NONE run adopted an unknown destination file that matches its source
C16_Witness ==
    /\ AfterRun /\ mode = "NONE"
    /\ \E k \in Keys : /\ hist.decisions[k] = "false"
                        /\ ReplicaRows(hist.replicas0, k) = {}
                        /\ ReplicaRows(replicas, k) # {}

\* C20: in every progress value published during a run files_processed is
\* at most total_files, so that the percentage 100 * files_processed /
\* total_files lies between 0 and 100, for any number of destinations.
\* Violated: in phase 3 files_processed adds one per copied destination
\* while total_files is the number of PreppedBackups.
C20_ProgressWithinTotal ==
    /\ progress.files_processed <= progress.total_files
    /\ 100 * progress.files_processed <= 100 * progress.total_files

\* the number of candidates phase 1 found
CandidateCount ==
    Cardinality({<<r, i>> \in SourceRoots \X (1..Len(FileOrder)) : i <= Len(candidates[r])})

C13_StoppingEnds ==
    (pc = "idle" /\ extra = 0 /\ handlers.stop = 0 /\ handlers.start = 0)
    => status # "STOPPING"

\* the run tasks that are executing
RunningTasks == (IF pc = "idle" THEN 0 ELSE 1) + extra

\* C14: at most one run task executes at any time on one AppState: a start
\* request made while a task has not finished is rejected, and no start
\* clears the stop flag of a run still executing. Violated: start_backup
\* rejects only while the status is RUNNING, not while it is STOPPING.
C14_AtMostOneRun ==
    /\ [](RunningTasks <= 1)
    /\ [][(pc # "idle" /\ stop) => stop']_vars

\* C15: in every catalog state, after any interleaving of insert_source_row
\* and insert_backup_row calls, no two source rows share a (file name, file
\* path) key and no two replica rows do; an upsert on an existing key updates
\* that row instead of adding one.
C15_CatalogKeysUnique ==
    /\ \A r1, r2 \in sources : r1.key = r2.key => r1 = r2
    /\ \A r1, r2 \in replicas : r1.key = r2.key => r1 = r2
    /\ \A r1, r2 \in sources : r1.id = r2.id => r1 = r2

\* a source row exists, and the last call upserted a replica row on a key
\* that already had one
C15_Witness ==
    /\ call.op = "insert_backup_row" /\ call.repeat /\ ~call.err
    /\ sources # {}
    /\ \E r \in replicas : r.key = call.key /\ r.last_modified = 2

\* C17: insert_source_row returns the row id when it inserts and when it hits
\* an existing key: for every sequence of calls on a key the id returned is
\* the same each time, the key has one row, and after each call that row
\* holds the hash, file size and modification time of the record passed.
C17_UpsertSourceReturnsRowId ==
    call.op = "insert_source_row"
    => LET rows == {r \in sources : r.key = call.key}
       IN /\ Cardinality(rows) = 1
          /\ call.id = call.ids[call.key]
          /\ \A r \in rows : /\ r.id = call.id
                              /\ r.hash = call.row.hash
                              /\ r.file_size = call.row.file_size
                              /\ r.last_modified = call.row.last_modified

\* the third call on one key, after a call on the other key
C17_Witness ==
    /\ call.op = "insert_source_row" /\ call.repeat
    /\ call.id = 1 /\ nextId = 3

\* C18: every destination path placed in a PreppedBackup, and so every path
\* the copy engine writes to, lies inside its destination root: the directory
\* the file system reaches for the path's parent (following symbolic links)
\* is under the one it reaches for the root. Violated: a parent that does not
\* exist yet is compared as written, although an existing symbolic link on
\* the way leads outside.
C18_PathsInsideDestination ==
    (call.op = "get_possible_backups" /\ ~call.err)
    => \A i \in 1..Len(call.paths) :
           path_starts_with(
               resolve(call.fs, SubSeq(call.paths[i], 1, Len(call.paths[i]) - 1)),
               resolve(call.fs, Components(PathDestinations[i])))

\* C19: the replica path is the destination root, then the candidate's
\* parent directory with one leading occurrence of the source root's parent
\* removed, then the file name: the source root's own name is the first
\* component under the destination. Violated: trim_start_matches removes
\* every leading repetition of the parent's text.
C19_ReplicaPathKeepsRootName ==
    (call.op = "get_possible_backups" /\ ~call.err)
    => \A i \in 1..Len(call.paths) :
           call.paths[i] = Components(PathDestinations[i])
                           \o <<call.root[Len(call.root)]>> \o call.sub \o <<call.name>>

\* C21: every subscriber's queue holds at most the channel's capacity; a
\* publish that finds a subscriber's queue full removes that subscriber from
\* the list, and a publish never removes a subscriber whose queue has room.
\* Violated: send on a full channel overwrites the oldest event and succeeds;
\* a sender is removed only once its receiver has been dropped.
C21_SlowSubscribersPruned ==
    [][published' # published
       => \A i \in 1..Len(progress_subscribers) :
              LET ch == progress_subscribers[i]
                  kept == \E j \in 1..Len(progress_subscribers') :
                              progress_subscribers'[j].id = ch.id
              IN /\ Len(ch.queue) <= ChannelCapacity
                 /\ (ch.rx /\ Len(ch.queue) = ChannelCapacity) => ~kept
                 /\ (ch.rx /\ Len(ch.queue) < ChannelCapacity) => kept]_vars

\* C22: the pool is replaced atomically: once a pool was set DB_POOL is never
\* empty again and get_connection never fails for a missing pool; the
\* connection it returns belongs to the pool that is current at that moment,
\* never to one still being built; and an operation that holds a connection
\* of the old pool runs on that pool after the replacement.
C22_PoolSwapAtomic ==
    /\ [][/\ DB_POOL # NoPool => DB_POOL' # NoPool
          /\ \A t \in Threads :
                 (conns[t].state = "idle" /\ conns'[t].state # "idle")
                 => /\ conns'[t].state = "error" <=> DB_POOL = NoPool
                    /\ conns'[t].pool = DB_POOL]_vars
    /\ [](\A t \in Threads :
              /\ conns[t].state \in {"held", "done"}
                 => /\ conns[t].pool # NoPool
                    /\ \A u \in Threads : conns[t].pool # building.of[u]
              /\ conns[t].state = "done" => conns[t].ran_on = conns[t].pool)

\* an operation has run on the pool it took its connection from, and that
\* pool has been replaced since
C22_Witness ==
    \E t \in Threads : /\ conns[t].state = "done"
                       /\ DB_POOL # NoPool /\ conns[t].pool # DB_POOL

\* C23: on every entry path a configuration whose database_file is the
\* empty string is accepted: the path goes on, the pool it stores is an
\* in-memory database with the schema set up, exactly what the same path
\* leaves for ":memory:". Violated: set_db_pool rejects the empty string, so
\* the command-line program ends with an error and the server's start-up
\* stores a pool without calling setup_database.
C23_EmptyDatabaseFileIsMemory ==
    (call.op \in {"cli_main", "build_rocket", "reinitialize_database"} /\ call.db_file = "")
    => /\ call.db.ok /\ is_in_memory(call.db.db_file) /\ call.db.schema
       /\ call.op = "cli_main" => call.db = cli_main_database(":memory:")
       /\ call.op = "build_rocket" => call.db = build_rocket_database(":memory:")
       /\ call.op = "reinitialize_database" => call.db = reinitialize_database(":memory:")

\* C24: a replica row is inserted or updated only in the copy phase of a
\* NONE run, for a destination file that was read and hashed in that run,
\* exists, and has the PreppedBackup's hash; the row carries that file's
\* modification time. No other step changes a replica row.
C24_ReplicaRowsOnlyAfterVerification ==
    [][\A k \in Keys :
           ReplicaRows(replicas', k) # ReplicaRows(replicas, k)
           => /\ pc = "copy" /\ mode = "NONE"
              /\ prepped[k[1]] # {}
              /\ DstPath(k[1], k[2]) \in hist'.hashed
              /\ dstFs'[k] # NoFile
              /\ \A p \in prepped[k[1]] : hash_file(dstFs'[k]) = p.hash
              /\ \A r \in ReplicaRows(replicas', k) : r.last_modified = dstFs'[k].mtime]_vars

\* a run that wrote one replica row after a copy and one for an unknown
\* destination file it adopted
C24_Witness ==
    /\ AfterRun /\ mode = "NONE"
    /\ \E k \in hist.copied : ReplicaRows(replicas, k) # ReplicaRows(hist.replicas0, k)
    /\ \E k \in Keys : /\ k \notin hist.copied /\ hist.decisions[k] = "false"
                        /\ ReplicaRows(hist.replicas0, k) = {}
                        /\ ReplicaRows(replicas, k) # {}

\* C25: whatever the reads return, short reads included, when hasher ends
\* the bytes fed to the digest are exactly the smaller of the file's length
\* and max_mebibytes_for_hash mebibytes, and at no moment more than that.
\* Violated: after a short read the buffers no longer end on the bound, and
\* the read that crosses it is hashed whole.
C25_HashedBytesArePrefix ==
    call.op = "hasher"
    => /\ call.bytes_read <= Min(call.len, call.max_bytes)
       /\ call.done => call.bytes_read = Min(call.len, call.max_bytes)

\* C26: when the walk of every source root succeeds and finds no file, the
\* run has no PreppedBackup, stays in phase 1 (it never enters the preparing
\* or the copying phase), writes neither table nor any destination, returns
\* Ok and ends with status COMPLETED.
C26_EmptyDiscoveryCompletes ==
    (runs > 0 /\ pc # "discover" /\ Discovered = {} /\ result # "err")
    => /\ pc \in {"finish", "idle"} /\ result = "ok"
       /\ progress.phase = 1
       /\ \A f \in Files : prepped[f] = {} /\ worker[f] = "none"
       /\ prepErrors = 0 /\ errors = 0
       /\ sources = hist.sources0 /\ replicas = hist.replicas0 /\ dstFs = hist.dst0
       /\ pc = "idle" => status = "COMPLETED"

\* a run over empty source roots has ended, with rows of earlier runs in
\* the catalog
C26_Witness ==
    /\ AfterRun /\ Discovered = {} /\ result = "ok" /\ status = "COMPLETED"
    /\ sources # {} /\ replicas # {}

\* a replica that existed was overwritten from outside before the current
\* run with other bytes in the hashed prefix, so that its hash is no longer
\* the one the catalog records for its source; its modification time is not
\* before the one its row records (the case the decision settles by the hash)
Corrupted(k) ==
    /\ AfterRun /\ mode = "NONE" /\ Undisturbed /\ hist.prevClean
    /\ hist.change.kind = "replica" /\ hist.change.file = k[1] /\ hist.change.dest = k[2]
    /\ hist.change.rewritten
    /\ srcFs[k[1]] # NoFile /\ hist.dst0[k] # NoFile
    /\ \A r \in SourceRows(hist.sources0, k[1]) : r.hash # hash_file(hist.dst0[k])
    /\ \A r \in ReplicaRows(hist.replicas0, k) : r.last_modified <= hist.dst0[k].mtime

\* C27: after a NONE run that completed without errors, changing a replica's
\* bytes within the hashed prefix and running again in mode NONE copies that
\* replica again (the should-copy decision is true, or the copy is forced),
\* and it ends with the source's content. Violated: when the earlier run
\* classified a modified source with skip_source_hash_check_if_newer (C4),
\* the new copy is verified against the catalog's old hash and removed.
C27_CorruptedReplicaRecopied ==
    \A k \in Keys :
        Corrupted(k)
        => /\ hist.decisions[k] \in {"true", "forced"}
           /\ k \in hist.copied
           /\ dstFs[k] # NoFile /\ dstFs[k].content = srcFs[k[1]].content

\* the step classifies source f, which has a row, in mode NONE
Classifies(f) ==
    /\ pc = "prepare" /\ mode = "NONE"
    /\ prepped[f] = {} /\ prepped'[f] # {}
    /\ SourceRows(sources, f) # {}

\* C28: for a known source whose file is newer than its row, with
\* skip_source_hash_check_if_newer = false in mode NONE, the hash is
\* recomputed; if hash and size are those of the row, only the row's
\* last_modified changes and source_changed is false; otherwise the row gets
\* the new hash, size and last_modified and source_changed is true.
C28_NewerSourceReclassified ==
    [][\A f \in Files :
           (/\ Classifies(f) /\ ~cfg.skip_source_hash_check_if_newer
            /\ \A rec \in SourceRows(sources, f) : rec.last_modified < srcFs[f].mtime)
           => LET rec == CHOOSE r \in SourceRows(sources, f) : TRUE
                  p == CHOOSE x \in prepped'[f] : TRUE
                  same == /\ hash_file(srcFs[f]) = rec.hash
                          /\ srcFs[f].content.size = rec.file_size
              IN /\ SrcPath(f) \in hist'.hashed
                 /\ p.hash = hash_file(srcFs[f])
                 /\ p.updated = ~same
                 /\ sources' = (sources \ {rec}) \cup
                        {IF same THEN [rec EXCEPT !.last_modified = srcFs[f].mtime]
                         ELSE [rec EXCEPT !.hash = hash_file(srcFs[f]),
                                          !.file_size = srcFs[f].content.size,
                                          !.last_modified = srcFs[f].mtime]}]_vars

\* a run classified a touched source: only last_modified of its row moved
C28_Witness ==
    /\ AfterRun /\ mode = "NONE" /\ ~cfg.skip_source_hash_check_if_newer
    /\ hist.change.kind = "touch"
    /\ \E p \in prepped["a"] : ~p.updated /\ p.hash = hash_file(srcFs["a"])
    /\ SrcPath("a") \in hist.hashed
    /\ \E r \in SourceRows(sources, "a"), r0 \in SourceRows(hist.sources0, "a") :
           r0.last_modified < r.last_modified
           /\ r = [r0 EXCEPT !.last_modified = srcFs["a"].mtime]

DecidesKnownReplica(k) ==
    /\ pc = "copy" /\ mode \in {"NONE", "FULL"}
    /\ hist.decisions[k] = "none" /\ hist'.decisions[k] \in {"true", "false"}
    /\ dstFs[k] # NoFile
    /\ ReplicaRows(replicas, k) # {}
    /\ \A b \in ReplicaRows(replicas, k) : b.last_modified <= dstFs[k].mtime

\* C30: for an existing destination file with a replica row whose
\* last_modified is not after the file's modification time, the should-copy
\* decision is false exactly when the source's size equals the destination's
\* and the destination's prefix hash equals the hash of the source row joined
\* to the replica row; otherwise it is true.
C30_KnownReplicaDecision ==
    [][\A k \in Keys :
           DecidesKnownReplica(k)
           => LET j == CHOOSE b \in select_backed_up_file(replicas, sources, k) : TRUE
              IN (hist'.decisions[k] = "false")
                     <=> (/\ srcFs[k[1]].content.size = dstFs[k].content.size
                          /\ ~j.hashNull /\ hash_file(dstFs[k]) = j.hash)]_vars

\* the step decides for the existing file at k, whose replica row records a
\* modification time after the file's, in a mode that hashes
DecidesRolledBackReplica(k) ==
    /\ pc = "copy" /\ mode \in {"NONE", "FULL"}
    /\ hist.decisions[k] = "none" /\ hist'.decisions[k] \in {"true", "false"}
    /\ dstFs[k] # NoFile
    /\ ReplicaRows(replicas, k) # {}
    /\ \A b \in ReplicaRows(replicas, k) : b.last_modified > dstFs[k].mtime

\* C31: for an existing destination file whose replica row records a
\* last_modified later than the file's modification time, the should-copy
\* decision is the overwrite_backup_if_existing_is_newer setting: true when
\* set; false when not, without hashing the file and without a catalog
\* write, whatever the file's size and content.
C31_RolledBackReplicaDecision ==
    [][\A k \in Keys :
           DecidesRolledBackReplica(k)
           => IF cfg.overwrite_backup_if_existing_is_newer
              THEN hist'.decisions[k] = "true"
              ELSE /\ hist'.decisions[k] = "false"
                   /\ hist'.hashed = hist.hashed
                   /\ replicas' = replicas /\ sources' = sources
                   /\ dstFs' = dstFs]_vars

\* the step decides in mode NONE for the existing file at k, which has no
\* replica row
DecidesUnknownReplica(k) ==
    /\ pc = "copy" /\ mode = "NONE"
    /\ hist.decisions[k] = "none" /\ hist'.decisions[k] \in {"true", "false"}
    /\ dstFs[k] # NoFile
    /\ ReplicaRows(replicas, k) = {}

\* C32: for an existing destination file with no replica row in mode NONE,
\* if its size and prefix hash are the PreppedBackup's, a replica row with
\* the PreppedBackup's source id is inserted, the file is left as it is and
\* the decision is false; otherwise the decision inserts no row and is true.
C32_UnknownReplicaAdopted ==
    [][\A k \in Keys :
           DecidesUnknownReplica(k)
           => LET p == CHOOSE x \in prepped[k[1]] : TRUE
                  same == /\ dstFs[k].content.size = p.file_size
                          /\ hash_file(dstFs[k]) = p.hash
              IN IF same
                 THEN /\ hist'.decisions[k] = "false"
                      /\ dstFs' = dstFs
                      /\ replicas' = replicas \cup
                             {[source_id |-> p.db_id, key |-> k,
                               last_modified |-> dstFs[k].mtime]}
                 ELSE /\ hist'.decisions[k] = "true"
                      /\ is_backup_required(p, k[2], mode, "none").rows = replicas]_vars

\* a run adopted a file it found at a destination
C32_Witness ==
    /\ AfterRun /\ mode = "NONE"
    /\ \E k \in Keys :
           /\ hist.decisions[k] = "false" /\ k \notin hist.copied
           /\ hist.dst0[k] # NoFile /\ dstFs[k] = hist.dst0[k]
           /\ ReplicaRows(hist.replicas0, k) = {}
           /\ \E b \in ReplicaRows(replicas, k), x \in prepped[k[1]] :
                  b.source_id = x.db_id /\ x.db_id # 0

\* C33: within one PreppedBackup the destinations are processed one after
\* another in the order of backup_destinations: when destination i is
\* processed (decision, copy, verification, catalog write) every destination
\* before it is finished and none after it has begun; and a failure at
\* destination i does not keep destination i+1 from being processed.
C33_DestinationsInOrder ==
    /\ [][\A f \in Files, i \in 1..Len(backup_destinations) :
              (/\ hist.decisions[<<f, backup_destinations[i]>>] = "none"
               /\ hist'.decisions[<<f, backup_destinations[i]>>] # "none")
              => /\ pos[f] = i /\ pos'[f] = i + 1
                 /\ \A j \in 1..Len(backup_destinations) :
                        /\ j < i => hist.decisions[<<f, backup_destinations[j]>>] # "none"
                        /\ j > i => hist'.decisions[<<f, backup_destinations[j]>>] = "none"]_vars
    /\ [](pc = "finish"
             => \A f \in Files :
                    (\E d \in Dests : hist.decisions[<<f, d>>] # "none")
                    => \A d \in Dests : hist.decisions[<<f, d>>] # "none")

\* a run failed at the first destination of a file and copied it to the second
C33_Witness ==
    /\ pc = "finish" /\ mode = "NONE"
    /\ <<"a", backup_destinations[1]>> \in hist.failed
    /\ <<"a", backup_destinations[2]>> \in hist.copied

\* C34: update_source_last_modified(id, ts) sets last_modified of the row
\* with that id to ts (the column holds seconds: the whole seconds of ts) and
\* leaves that row's hash, file_size, file name and directory, and every
\* other row of both tables, as they were.
C34_UpdateLastModifiedFrame ==
    [][(call'.op = "update_source_last_modified" /\ call'.n = CallCount + 1)
       => /\ \A r \in sources :
                 IF r.id = call'.id
                 THEN \E u \in sources' :
                          /\ u.id = r.id /\ u.key = r.key
                          /\ u.hash = r.hash /\ u.file_size = r.file_size
                          /\ u.last_modified = as_secs(call'.ts)
                 ELSE r \in sources'
          /\ Cardinality(sources') = Cardinality(sources)
          /\ replicas' = replicas /\ nextId' = nextId]_vars

\* the last call moved the time of one of two source rows, with a time that
\* has a fraction of a second
C34_Witness ==
    /\ call.op = "update_source_last_modified" /\ call.ts.nanos # 0
    /\ \E r \in call.before, u \in sources :
           r.id = call.id /\ u.id = call.id /\ u.last_modified # r.last_modified
    /\ \E r \in sources : r.id # call.id

\* the files the walker is to return: at most max_depth below the root, the
\* root and every directory on the way not named in skip_dirs
WantedFiles ==
    {e.path : e \in {x \in call.tree :
        /\ ~x.dir
        /\ Len(x.path) <= call.max_depth
        /\ call.root \notin call.skip_dirs
        /\ \A i \in 1..(Len(x.path) - 1) : x.path[i] \notin call.skip_dirs}}

\* C35: the walker returns exactly the files at depth at most max_depth
\* (depth 1: directly in the root) that have no directory above them, the
\* root included, whose base name is in skip_dirs; no file inside a skipped
\* directory and no directory is returned.
C35_WalkerReturnsWantedFiles ==
    (call.op = "get_files_in_path" /\ call.done)
    => /\ {call.files[i] : i \in 1..Len(call.files)} = WantedFiles
       /\ \A i, j \in 1..Len(call.files) : call.files[i] = call.files[j] => i = j
       /\ \A i \in 1..Len(call.files) : ~is_dir(call.tree, call.files[i])

\* a walk over a tree with a file in the root, a file named like a skipped
\* directory, a file inside a skipped directory and a file below max_depth
C35_Witness ==
    /\ call.op = "get_files_in_path" /\ call.done
    /\ call.skip_dirs = {"s"} /\ call.max_depth = 2
    /\ [path |-> <<"s">>, dir |-> TRUE] \in call.tree
    /\ [path |-> <<"s", "k">>, dir |-> FALSE] \in call.tree
    /\ [path |-> <<"k">>, dir |-> TRUE] \in call.tree
    /\ [path |-> <<"k", "s">>, dir |-> FALSE] \in call.tree
    /\ call.files = <<(<<"k", "s">>)>>

\* the bytes of the copies in K: each the file_size of its PreppedBackup
RECURSIVE CopiedBytes(_)
CopiedBytes(K) ==
    IF K = {} THEN 0
    ELSE LET k == CHOOSE x \in K : TRUE
         IN (CHOOSE p \in prepped[k[1]] : TRUE).file_size + CopiedBytes(K \ {k})

\* C36: under every interleaving of the workers, files_processed and
\* bytes_processed never decrease from one progress value published in phase
\* 3 to the next, and when phase 3 ends the published progress holds the
\* number of successful copies of the run and their bytes. Violated: a
\* worker publishes the sums it read from the counters after releasing their
\* locks, so an earlier sum can be published after a later one.
C36_ProgressMonotoneAndFinal ==
    /\ [][(pc = "copy" /\ pc' = "copy")
          => /\ progress'.files_processed >= progress.files_processed
             /\ progress'.bytes_processed >= progress.bytes_processed]_vars
    /\ [](pc = "finish" /\ progress.phase = 3 /\ mode = "NONE"
             => /\ progress.files_processed = Cardinality(hist.copied \ hist.failed)
                /\ progress.bytes_processed = CopiedBytes(hist.copied \ hist.failed))

\* C37: within one run the phases are sequential: a candidate is classified
\* (its source row written, its PreppedBackup produced, a cursor advanced) only
\* in phase 2 and with the candidate map of phase 1 complete and unchanged; a
\* should-copy decision, a copy or a replica row is made only in phase 3 with
\* every candidate of every source root classified; and from the start of the
\* run to its completion the phase of the published progress never decreases
\* and is one of 0, 1, 2, 3
C37_PhasesSequential ==
    /\ [][pc # "idle"
          => /\ (sources' # sources \/ prepped' # prepped \/ cursor' # cursor)
                   => pc = "prepare" /\ candidates' = candidates
             /\ (hist'.decisions # hist.decisions \/ hist'.copied # hist.copied
                   \/ replicas' # replicas)
                   => /\ pc = "copy" /\ prepped' = prepped
                      /\ \A r \in SourceRoots : cursor[r] > Len(candidates[r])
             /\ progress'.phase >= progress.phase]_vars
    /\ [](progress.phase \in 0..3)

\* C38: the operations of AppState never deadlock: whenever a thread is inside
\* an operation some thread inside an operation can take its next step, and
\* every call eventually returns, under every interleaving of two threads
\* calling any of the operations; complete_backup_run included, which locks
\* progress, history, status and progress_subscribers while it holds the guard
\* of current_run
C38_EveryCallReturns ==
    /\ []((\E t \in Threads : frames[t] # NoFrame)
             => \E t \in Threads : ENABLED Step(t))
    /\ \A t \in Threads : (frames[t] # NoFrame) ~> (frames[t] = NoFrame)

C38_Witness ==
    \E t, u \in Threads :
        /\ frames[t].op = "complete_backup_run"
        /\ mutexes["current_run"] = t /\ mutexes["progress_subscribers"] = t
        /\ status \in {"COMPLETED", "FAILED"}
        /\ frames[u] # NoFrame /\ Head(frames[u].code) = <<"lock", "current_run">>

\* C39: after any calls of start_backup_run, complete_backup_run and
\* clear_history the history holds at most MAX_HISTORY_ENTRIES entries, newest
\* first; the history changes only by being cleared or by a push of
\* complete_backup_run, which puts one entry of the current run in front of the
\* entries there were, FAILED when an error was passed and COMPLETED otherwise,
\* and drops the oldest entry when the bound is exceeded; a call that returns
\* has pushed once when there was a current run and not at all when there was
\* none, and with no current run its steps change nothing of AppState
C39_HistoryBounded ==
    /\ [](/\ Len(history) <= MAX_HISTORY_ENTRIES
          /\ \A i, j \in 1..Len(history) :
                 i < j => history[i].completed_at >= history[j].completed_at)
    /\ [][/\ history' # history
             => \/ history' = <<>>
                \/ \E t \in Threads :
                     /\ frames[t].op = "complete_backup_run" /\ frames'[t] # frames[t]
                     /\ current_run # NoRun
                     /\ Head(history').id = current_run.id
                     /\ Head(history').status = IF frames[t].error THEN "FAILED"
                                                ELSE "COMPLETED"
                     /\ Len(history') = Min(Len(history) + 1, MAX_HISTORY_ENTRIES)
                     /\ Tail(history') = SubSeq(history, 1, Len(history') - 1)
          /\ \A t \in Threads :
               frames[t].op = "complete_backup_run" /\ frames'[t] # frames[t]
               => /\ frames'[t] = NoFrame
                     => frames[t].pushes = IF current_run = NoRun THEN 0 ELSE 1
                  /\ current_run = NoRun
                     => UNCHANGED <<status, progress, stop, current_run, history,
                                    progress_subscribers, published>>]_vars

C39_Witness ==
    /\ Len(history) = MAX_HISTORY_ENTRIES
    /\ history[1].completed_at > MAX_HISTORY_ENTRIES + 1
    /\ history[1].status = "FAILED" /\ history[2].status = "COMPLETED"
    /\ \A t \in Threads : frames[t] = NoFrame

====
